---- MODULE Spec2Model ----
(***************************************************************************)
(* Model of the fks_worker task scheduling engine.                         *)
(*                                                                         *)
(* TaskScheduler (src/src/scheduler/scheduler.py) keeps a resident map of  *)
(* cron/interval registrations and a heapq min-heap of one-time entries,   *)
(* and runs a polling loop that turns due registrations into Task objects  *)
(* handed to queue_task.  Time is the naive UTC wall clock, counted in     *)
(* whole clock units, one unit being the spacing of "* * * * *".  The code       *)
(* between two suspension points of the asyncio loop (the await of         *)
(* queue_task and the await of asyncio.sleep) runs atomically, so each     *)
(* action below is one such run.  queue_task is inherited from a framework *)
(* base class: it may suspend, and it either returns or raises.            *)
(***************************************************************************)
EXTENDS Integers, Sequences, FiniteSets, TLC

(* ---------------------------- bounds ---------------------------------- *)
MaxTime == 3            \* the wall clock runs over 0..MaxTime
UtcOffset == 1          \* what timestamp() subtracts from a naive datetime
MaxAttempts == 3        \* TaskContext.attempt and max_attempts run up to this
MaxTimeout == 1         \* TaskContext.timeout runs up to this
MaxRetries == 3         \* Task.max_retries runs up to this
MaxCalls == 4           \* execute() calls made on one Task
MaxItems == 2           \* items put into the task space
MaxFires == 3           \* fires of the interval task by the scheduler
MaxInitCalls == 2       \* initialize() calls made on one WorkerService
MaxLifeCalls == 3       \* start() and stop() calls made on one WorkerService
MaxJobs == 2            \* jobs in the configuration of the scheduler

(* ---------------------------- inputs ---------------------------------- *)
Ids == {1, 2}                            \* uuid4 values, compared as strings
Priorities == {1, 2}                     \* priority of a one-time task
ResidentPriorities == {5}                \* priority of a cron/interval task
IntervalInputs == {0, 1, 2}              \* interval_seconds
CronInputs == {"* * * * *", "*/2 * * * *", "not a cron"}
CheckIntervals == {1, 2}                 \* config check_interval_seconds
Attempts == 1..MaxAttempts               \* TaskContext.attempt on entry
MaxAttemptsInputs == 0..MaxAttempts      \* TaskContext.max_attempts
Durations == 0..(MaxTimeout + 1)         \* how long one execute() takes

None == -1

(* --------------------------- defaults --------------------------------- *)
DefaultMaxRetries == 3                   \* Task.max_retries
DefaultMaxAttempts == 3                  \* TaskContext.max_attempts

VARIABLES
    clock,            \* datetime.utcnow()
    check_interval,   \* self._check_interval
    scheduled_tasks,  \* keys of self.scheduled_tasks, in insertion order
    objs,             \* the ScheduledTask objects, by task_id
    pending_queue,    \* self.pending_queue, the heapq list
    running,          \* self.running
    pc,               \* where the coroutine start() is
    now,              \* local `now` of _process_scheduled_tasks
    snap,             \* rest of list(self.scheduled_tasks.items()) to visit
    cur,              \* the task whose queue_task call is in flight
    wake_at,          \* when asyncio.sleep returns
    used,             \* task ids generated so far
    once_ids,         \* task ids returned by schedule_once
    fired,            \* per one-time id, queue_task calls returned / raised
    fired_slot,       \* per resident task, the slot of its last accepted Task
    tick_due,         \* ids due when the current tick read `now`
    tick_tried,       \* queue_task calls made by the current tick, in order
    last_call,        \* the public call just made, as its caller saw it
    observe           \* whether the callers' view of the calls is recorded

schedVars == <<clock, check_interval, scheduled_tasks, objs,
               pending_queue, running, pc, now, snap, cur, wake_at, used,
               once_ids, fired, fired_slot, tick_due, tick_tried, last_call,
               observe>>

\* BaseTask.run (src/src/tasks/base.py)
VARIABLES
    context,          \* the TaskContext handed to run()
    run_pc,           \* where the coroutine run() is
    history,          \* outcome of each execute() invocation of this run()
    entry             \* the TaskContext as it was when run() was entered

runVars == <<context, run_pc, history, entry>>

NoContext == [attempt |-> 0, max_attempts |-> 0, timeout |-> None]

\* no run() in progress
RunIdle ==
    /\ context = NoContext
    /\ run_pc = "idle"
    /\ history = <<>>
    /\ entry = NoContext

\* TaskExecutor.execute (src/src/executors/base.py)
VARIABLES
    exec_task,        \* the Task handed to execute(): retry_count, max_retries
    exec_pc,          \* where the coroutine execute() is
    exec_result,      \* the TaskResult the last execute() returned
    invoked,          \* the hooks the current execute() has invoked
    exec_entry,       \* task.retry_count when execute() was entered
    precheck,         \* what _can_execute gave the current execute()
    exec_raised,      \* the hook that raised in the current execute()
    exec_calls        \* execute() calls made on this Task

execVars == <<exec_task, exec_pc, exec_result, invoked, exec_entry, precheck,
              exec_raised, exec_calls>>

NoTask == [retry_count |-> 0, max_retries |-> 0]
NoResult == [status |-> "none", error |-> "none"]

\* no execute() made yet
ExecIdle ==
    /\ exec_task = NoTask
    /\ exec_pc = "idle"
    /\ exec_result = NoResult
    /\ invoked = {}
    /\ exec_entry = 0
    /\ precheck = "none"
    /\ exec_raised = "none"
    /\ exec_calls = 0

\* DistributedTaskExecutor (src/src/executors/distributed.py)
VARIABLES
    task_space,       \* the items of the task space, oldest first
    result_space,     \* the items put into the result space, oldest first
    dist_pc,          \* where the coroutine _process_tasks() is
    dist_cur,         \* task_data, the item the current step took
    dist_raised,      \* where the current step met an exception
    dist_made         \* items put into the task space so far

distVars == <<task_space, result_space, dist_pc, dist_cur, dist_raised,
              dist_made>>

NoItem == [task_id |-> 0, type |-> "none", context_ok |-> FALSE,
           task_name |-> "none", ctx |-> NoContext]

\* empty spaces, no _process_tasks() made yet
DistIdle ==
    /\ task_space = <<>>
    /\ result_space = <<>>
    /\ dist_pc = "idle"
    /\ dist_cur = NoItem
    /\ dist_raised = "none"
    /\ dist_made = 0

\* WorkerService (src/src/service.py)
VARIABLES
    _initialized,     \* self._initialized
    refs,             \* per component, whether its reference is set
    comp,             \* per component, the state of the object referenced
    svc_pc,           \* where the coroutine initialize() is
    svc_cur,          \* the component whose call is awaited
    svc_log,          \* what the current initialize() did, in order
    svc_outcome,      \* how the last initialize() ended for its caller
    svc_calls,        \* initialize() calls made so far
    health            \* what the last health_check() returned

svcVars == <<_initialized, refs, comp, svc_pc, svc_cur, svc_log,
             svc_outcome, svc_calls, health>>

\* _sba (with its two spaces), _queue_manager, _executor_manager,
\* _scheduler, _monitor
Components ==
    {"sba", "queue_manager", "executor_manager", "scheduler", "monitor"}

NoHealth == [c \in Components |-> "none"]

\* WorkerService.__init__: every reference None, _initialized False
SvcIdle ==
    /\ _initialized = FALSE
    /\ refs = [c \in Components |-> FALSE]
    /\ comp = [c \in Components |-> "none"]
    /\ svc_pc = "idle"
    /\ svc_cur = "none"
    /\ svc_log = <<>>
    /\ svc_outcome = "none"
    /\ svc_calls = 0
    /\ health = NoHealth

\* WorkerService.start() and WorkerService.stop()
VARIABLES
    start_pc,         \* where the coroutine start() is
    stop_pc,          \* where the coroutine stop() is
    start_log,        \* components the current start() called, in order
    stop_log,         \* components the current stop() called, in order
    life_calls        \* start() and stop() calls made so far

lifeVars == <<start_pc, stop_pc, start_log, stop_log, life_calls>>

LifeIdle ==
    /\ start_pc = "idle"
    /\ stop_pc = "idle"
    /\ start_log = <<>>
    /\ stop_log = <<>>
    /\ life_calls = 0

\* TaskScheduler.initialize()
VARIABLES
    jobs,             \* config["jobs"]: the schedule of each job, in order
    boot_outcome      \* how initialize() ended for its caller

bootVars == <<jobs, boot_outcome>>

BootIdle ==
    /\ jobs = <<>>
    /\ boot_outcome = "none"

workerVars == <<runVars, execVars, distVars, svcVars, lifeVars, bootVars>>

WorkerIdle ==
    RunIdle /\ ExecIdle /\ DistIdle /\ SvcIdle /\ LifeIdle /\ BootIdle

\* what an action of WorkerService leaves alone
notSvc == <<schedVars, runVars, execVars, distVars, lifeVars, bootVars>>

\* what an action of BaseTask.run leaves alone
notRun == <<schedVars, execVars, distVars, svcVars, lifeVars, bootVars>>

\* what an action of TaskExecutor.execute leaves alone
notExec == <<schedVars, runVars, distVars, svcVars, lifeVars,
            bootVars>>

\* what an action of DistributedTaskExecutor leaves alone, BaseTask.run aside
notDist == <<schedVars, execVars, svcVars, lifeVars, bootVars>>

vars == <<schedVars, workerVars>>

NoCur == [kind |-> "none", task_id |-> 0, slot |-> None, priority |-> 0,
          created |-> None]

(* ------------------------ pure helpers -------------------------------- *)
\* datetime.timestamp() of a naive datetime: read as local time
timestamp(t) == t - UtcOffset

\* croniter(expr) accepts the expression
_is_cron_expression(expr) == expr \in {"* * * * *", "*/2 * * * *"}

\* clock units between two occurrences of a valid expression
CronPeriod(expr) == IF expr = "*/2 * * * *" THEN 2 ELSE 1

\* get_next that returns t itself when t is an occurrence
get_next_Inclusive(expr, t) ==
    ((t + CronPeriod(expr) - 1) \div CronPeriod(expr)) * CronPeriod(expr)

\* croniter(expr, t).get_next(): first occurrence strictly after t
get_next(expr, t) == ((t \div CronPeriod(expr)) + 1) * CronPeriod(expr)

\* TupleLt with the heap tuple built as (priority, timestamp, ...)
TupleLt_PriorityFirst(a, b) ==
    \/ a.priority < b.priority
    \/ a.priority = b.priority /\ a.ts < b.ts
    \/ a.priority = b.priority /\ a.ts = b.ts /\ a.task_id < b.task_id

\* tuple comparison (timestamp, priority, task_id, task_data)
TupleLt(a, b) ==
    \/ a.ts < b.ts
    \/ a.ts = b.ts /\ a.priority < b.priority
    \/ a.ts = b.ts /\ a.priority = b.priority /\ a.task_id < b.task_id

\* heapq._siftdown(heap, startpos, pos), positions 0-based
RECURSIVE SiftDownLoop(_, _, _, _)
SiftDownLoop(heap, startpos, pos, newitem) ==
    IF pos > startpos
    THEN LET parentpos == (pos - 1) \div 2
             parent == heap[parentpos + 1]
         IN IF TupleLt(newitem, parent)
            THEN SiftDownLoop([heap EXCEPT ![pos + 1] = parent],
                              startpos, parentpos, newitem)
            ELSE [heap EXCEPT ![pos + 1] = newitem]
    ELSE [heap EXCEPT ![pos + 1] = newitem]

_siftdown(heap, startpos, pos) == SiftDownLoop(heap, startpos, pos, heap[pos + 1])

\* heapq._siftup(heap, pos), positions 0-based
RECURSIVE SiftUpLoop(_, _, _, _)
SiftUpLoop(heap, startpos, pos, newitem) ==
    LET endpos == Len(heap)
        childpos == 2 * pos + 1
    IN IF childpos < endpos
       THEN LET rightpos == childpos + 1
                c == IF rightpos < endpos
                        /\ ~TupleLt(heap[childpos + 1], heap[rightpos + 1])
                     THEN rightpos ELSE childpos
            IN SiftUpLoop([heap EXCEPT ![pos + 1] = heap[c + 1]],
                          startpos, c, newitem)
       ELSE _siftdown([heap EXCEPT ![pos + 1] = newitem], startpos, pos)

_siftup(heap, pos) == SiftUpLoop(heap, pos, pos, heap[pos + 1])

\* heapq.heappush(heap, item)
heappush(heap, item) == _siftdown(Append(heap, item), 0, Len(heap))

\* heappop_rest with the head read as heap[0] and never removed
heappop_rest_Peek(heap) == heap

\* heapq.heappop(heap): the list left behind, and the item returned
heappop_rest(heap) ==
    LET lastelt == heap[Len(heap)]
        rest == SubSeq(heap, 1, Len(heap) - 1)
    IN IF rest # <<>> THEN _siftup([rest EXCEPT ![1] = lastelt], 0) ELSE rest

heappop_item(heap) == heap[1]

Range(s) == {s[i] : i \in 1..Len(s)}
HeapIds(heap) == {heap[i].task_id : i \in 1..Len(heap)}

\* Without as self.scheduled_tasks.clear()
Without_All(s, x) == <<>>

\* del self.scheduled_tasks[task_id]: the other keys keep their order
RECURSIVE Without(_, _)
Without(s, x) ==
    IF s = <<>> THEN <<>>
    ELSE IF Head(s) = x THEN Tail(s) ELSE <<Head(s)>> \o Without(Tail(s), x)

\* objects still referenced by the map, the snapshot or the call in flight
Reach(o, keys) == [i \in (DOMAIN o) \cap keys |-> o[i]]

(* --------------------- scheduler internals ---------------------------- *)
\* ScheduledTask(...) as schedule_cron builds it (next_run not yet set)
CronTask(expr, priority) ==
    [schedule_type |-> "cron", priority |-> priority, next_run |-> None,
     cron_expression |-> expr, interval |-> None]

\* ScheduledTask(...) as schedule_interval builds it
IntervalTask(n, priority) ==
    [schedule_type |-> "interval", priority |-> priority,
     next_run |-> clock + n, cron_expression |-> "", interval |-> n]

\* _update_next_cron_run(task_id) on a key of the map
_update_next_cron_run(o, task_id) ==
    IF o[task_id].cron_expression # ""
    THEN [o EXCEPT ![task_id].next_run =
              get_next(o[task_id].cron_expression, clock)]
    ELSE o

\* _initialize_next_runs(): every resident cron task is recomputed
RECURSIVE _initialize_next_runs(_, _)
_initialize_next_runs(o, keys) ==
    IF keys = <<>> THEN o
    ELSE _initialize_next_runs(
             IF o[Head(keys)].schedule_type = "cron"
             THEN _update_next_cron_run(o, Head(keys)) ELSE o,
             Tail(keys))

\* the test of the resident loop: task.next_run and task.next_run <= now
IsDue(task, n) == task.next_run # None /\ task.next_run <= n

\* the test of the one-time loop
HeapDue(heap, n) == heap # <<>> /\ heap[1].ts <= timestamp(n)

\* SkipNotDue with `break` where the loop should go on to the next task
SkipNotDue_Break(s, o, n) ==
    IF s = <<>> THEN <<>>
    ELSE IF IsDue(o[Head(s)], n) THEN s ELSE <<>>

\* the resident loop runs on to the first due task of the snapshot
RECURSIVE SkipNotDue(_, _, _)
SkipNotDue(s, o, n) ==
    IF s = <<>> THEN <<>>
    ELSE IF IsDue(o[Head(s)], n) THEN s ELSE SkipNotDue(Tail(s), o, n)

\* the Task object _queue_task builds before it awaits queue_task
ResidentCall(task_id, o) ==
    [kind |-> "resident", task_id |-> task_id, slot |-> o[task_id].next_run,
     priority |-> o[task_id].priority, created |-> timestamp(clock)]

OnceCall(item) ==
    [kind |-> "once", task_id |-> item.task_id, slot |-> item.ts,
     priority |-> item.priority, created |-> timestamp(clock)]

\* _process_scheduled_tasks from the point reached, with rest s of the
\* snapshot, objects o, heap h and tick time n, up to its next suspension:
\* the next queue_task call, or asyncio.sleep once both loops are done
Proceed(s, o, h, n) ==
    LET r == SkipNotDue(s, o, n) IN
    IF r # <<>>
    THEN /\ pc' = "queue_resident"
         /\ cur' = ResidentCall(Head(r), o)
         /\ snap' = Tail(r)
         /\ pending_queue' = h
         /\ objs' = Reach(o, Range(scheduled_tasks) \cup Range(r))
         /\ wake_at' = wake_at
    ELSE IF HeapDue(h, n)
    THEN /\ pc' = "queue_once"
         /\ cur' = OnceCall(heappop_item(h))
         /\ snap' = <<>>
         /\ pending_queue' = heappop_rest(h)
         /\ objs' = Reach(o, Range(scheduled_tasks))
         /\ wake_at' = wake_at
    ELSE /\ pc' = "sleep"
         /\ cur' = NoCur
         /\ snap' = <<>>
         /\ pending_queue' = h
         /\ objs' = Reach(o, Range(scheduled_tasks))
         /\ wake_at' = clock + check_interval

\* ids a tick that reads `now` = n finds due
DueIds(o, keys, h, n) ==
    {i \in Range(keys) : IsDue(o[i], n)}
    \cup {h[i].task_id : i \in {j \in 1..Len(h) : h[j].ts <= timestamp(n)}}

\* first statements of _process_scheduled_tasks
BeginTick(o) ==
    /\ now' = clock
    /\ tick_due' = DueIds(o, scheduled_tasks, pending_queue, clock)
    /\ tick_tried' = <<>>
    /\ Proceed(scheduled_tasks, o, pending_queue, clock)

\* a public call: its name, its argument (cron_expression, or
\* interval_seconds, run_at or task_id), whether it raised, what it returned
NoCall == [op |-> "none", expr |-> "", arg |-> 0, raised |-> FALSE, ret |-> 0]

Call(op, expr, arg, raised, ret) ==
    IF observe
    THEN [op |-> op, expr |-> expr, arg |-> arg, raised |-> raised,
          ret |-> ret]
    ELSE NoCall

(* ------------------------------ Init ---------------------------------- *)
Constructed ==
    /\ clock = 0
    /\ check_interval \in CheckIntervals
    /\ scheduled_tasks = <<>>
    /\ objs = <<>>
    /\ pending_queue = <<>>
    /\ running = FALSE
    /\ pc = "idle"
    /\ now = None
    /\ snap = <<>>
    /\ cur = NoCur
    /\ wake_at = None
    /\ used = {}
    /\ once_ids = {}
    /\ fired = <<>>
    /\ fired_slot = <<>>
    /\ tick_due = {}
    /\ tick_tried = <<>>
    /\ last_call = NoCall

\* the scheduler as constructed, its public calls not recorded
Init == Constructed /\ observe = FALSE /\ WorkerIdle

\* the scheduler as constructed with the default tick period, the outcome
\* of each public call recorded
InitCalls == Constructed /\ check_interval = 1 /\ observe = TRUE /\ WorkerIdle

loopVars == <<pc, now, snap, cur, wake_at, tick_due, tick_tried>>

(* ------------------------- public calls ------------------------------- *)
\* schedule_cron(task_name, cron_expression, parameters, priority)
schedule_cron(expr, priority) ==
    /\ UNCHANGED workerVars
    /\ IF ~_is_cron_expression(expr)
       THEN /\ last_call' = Call("schedule_cron", expr, 0, TRUE, 0)
            /\ UNCHANGED <<clock, check_interval, observe, scheduled_tasks,
                           objs, pending_queue, running, used, once_ids, fired,
                           fired_slot>>
            /\ UNCHANGED loopVars
       ELSE /\ \E task_id \in Ids \ used :
                 /\ used' = used \cup {task_id}
                 /\ scheduled_tasks' = Append(scheduled_tasks, task_id)
                 /\ objs' = _update_next_cron_run(
                                (task_id :> CronTask(expr, priority)) @@ objs,
                                task_id)
                 /\ fired_slot' = (task_id :> None) @@ fired_slot
                 /\ last_call' = Call("schedule_cron", expr, 0, FALSE, task_id)
            /\ UNCHANGED <<clock, check_interval, observe, pending_queue,
                           running, once_ids, fired>>
            /\ UNCHANGED loopVars

\* schedule_interval(task_name, interval_seconds, parameters, priority)
schedule_interval(interval_seconds, priority) ==
    /\ UNCHANGED workerVars
    /\ IF interval_seconds <= 0
       THEN /\ last_call' = Call("schedule_interval", "", interval_seconds, TRUE, 0)
            /\ UNCHANGED <<clock, check_interval, observe, scheduled_tasks,
                           objs, pending_queue, running, used, once_ids, fired,
                           fired_slot>>
            /\ UNCHANGED loopVars
       ELSE /\ \E task_id \in Ids \ used :
                 /\ used' = used \cup {task_id}
                 /\ scheduled_tasks' = Append(scheduled_tasks, task_id)
                 /\ objs' = (task_id :> IntervalTask(interval_seconds, priority))
                            @@ objs
                 /\ fired_slot' = (task_id :> None) @@ fired_slot
                 /\ last_call' = Call("schedule_interval", "",
                                      interval_seconds, FALSE, task_id)
            /\ UNCHANGED <<clock, check_interval, observe, pending_queue,
                           running, once_ids, fired>>
            /\ UNCHANGED loopVars

\* schedule_once that also files the task in the resident map
schedule_once_Resident(run_at, priority) ==
    /\ UNCHANGED workerVars
    /\ IF run_at <= clock
       THEN /\ last_call' = Call("schedule_once", "", run_at, TRUE, 0)
            /\ UNCHANGED <<clock, check_interval, observe, scheduled_tasks,
                           objs, pending_queue, running, used, once_ids, fired,
                           fired_slot>>
            /\ UNCHANGED loopVars
       ELSE /\ \E task_id \in Ids \ used :
                 /\ used' = used \cup {task_id}
                 /\ once_ids' = once_ids \cup {task_id}
                 /\ fired' = (task_id :> [ok |-> 0, err |-> 0]) @@ fired
                 /\ scheduled_tasks' = Append(scheduled_tasks, task_id)
                 /\ objs' = (task_id :> [schedule_type |-> "once",
                                         priority |-> priority,
                                         next_run |-> run_at,
                                         cron_expression |-> "",
                                         interval |-> None]) @@ objs
                 /\ fired_slot' = (task_id :> None) @@ fired_slot
                 /\ pending_queue' = heappush(pending_queue,
                        [ts |-> timestamp(run_at), priority |-> priority,
                         task_id |-> task_id, inserted_at |-> clock])
                 /\ last_call' = Call("schedule_once", "", run_at, FALSE, task_id)
            /\ UNCHANGED <<clock, check_interval, observe, running>>
            /\ UNCHANGED loopVars

\* schedule_once that rejects only run_at < now
schedule_once_Strict(run_at, priority) ==
    /\ UNCHANGED workerVars
    /\ IF run_at < clock
       THEN /\ last_call' = Call("schedule_once", "", run_at, TRUE, 0)
            /\ UNCHANGED <<clock, check_interval, observe, scheduled_tasks,
                           objs, pending_queue, running, used, once_ids, fired,
                           fired_slot>>
            /\ UNCHANGED loopVars
       ELSE /\ \E task_id \in Ids \ used :
                 /\ used' = used \cup {task_id}
                 /\ once_ids' = once_ids \cup {task_id}
                 /\ fired' = (task_id :> [ok |-> 0, err |-> 0]) @@ fired
                 /\ pending_queue' = heappush(pending_queue,
                        [ts |-> timestamp(run_at), priority |-> priority,
                         task_id |-> task_id, inserted_at |-> clock])
                 /\ last_call' = Call("schedule_once", "", run_at, FALSE, task_id)
            /\ UNCHANGED <<clock, check_interval, observe, scheduled_tasks,
                           objs, running, fired_slot>>
            /\ UNCHANGED loopVars

\* schedule_once(task_name, run_at, parameters, priority)
schedule_once(run_at, priority) ==
    /\ UNCHANGED workerVars
    /\ IF run_at <= clock
       THEN /\ last_call' = Call("schedule_once", "", run_at, TRUE, 0)
            /\ UNCHANGED <<clock, check_interval, observe, scheduled_tasks,
                           objs, pending_queue, running, used, once_ids, fired,
                           fired_slot>>
            /\ UNCHANGED loopVars
       ELSE /\ \E task_id \in Ids \ used :
                 /\ used' = used \cup {task_id}
                 /\ once_ids' = once_ids \cup {task_id}
                 /\ fired' = (task_id :> [ok |-> 0, err |-> 0]) @@ fired
                 /\ pending_queue' = heappush(pending_queue,
                        [ts |-> timestamp(run_at), priority |-> priority,
                         task_id |-> task_id, inserted_at |-> clock])
                 /\ last_call' = Call("schedule_once", "", run_at, FALSE, task_id)
            /\ UNCHANGED <<clock, check_interval, observe, scheduled_tasks,
                           objs, running, fired_slot>>
            /\ UNCHANGED loopVars

\* remove_task(task_id)
remove_task(task_id) ==
    /\ UNCHANGED workerVars
    /\ IF task_id \in Range(scheduled_tasks)
       THEN /\ scheduled_tasks' = Without(scheduled_tasks, task_id)
            /\ objs' = Reach(objs, Range(scheduled_tasks') \cup Range(snap)
                                   \cup {cur.task_id})
            /\ fired_slot' = Reach(fired_slot, DOMAIN objs')
            /\ last_call' = Call("remove_task", "", task_id, FALSE, 1)
       ELSE /\ last_call' = Call("remove_task", "", task_id, FALSE, 0)
            /\ UNCHANGED <<scheduled_tasks, objs, fired_slot>>
    /\ UNCHANGED <<clock, check_interval, observe, pending_queue, running,
                   used, once_ids, fired>>
    /\ UNCHANGED loopVars

\* stop()
stop ==
    /\ UNCHANGED workerVars
    /\ running' = FALSE
    /\ last_call' = NoCall
    /\ UNCHANGED <<clock, check_interval, observe, scheduled_tasks, objs,
                   pending_queue, used, once_ids, fired, fired_slot>>
    /\ UNCHANGED loopVars

(* ------------------------ the polling loop ---------------------------- *)
\* start(): sets the flag, recomputes cron next runs, and enters the loop;
\* nothing suspends before the first tick reaches an await
EnterLoop ==
    /\ pc = "idle"
    /\ running' = TRUE
    /\ BeginTick(_initialize_next_runs(objs, scheduled_tasks))
    /\ fired_slot' = Reach(fired_slot, DOMAIN objs')
    /\ last_call' = NoCall
    /\ UNCHANGED <<clock, check_interval, observe, scheduled_tasks, used,
                   once_ids, fired>>

\* start() called on the scheduler by itself
start ==
    /\ UNCHANGED workerVars
    /\ EnterLoop

\* WakeTick as `while True`: the flag is never tested
WakeTick_IgnoresFlag ==
    /\ UNCHANGED workerVars
    /\ pc = "sleep"
    /\ clock >= wake_at
    /\ BeginTick(objs)
    /\ fired_slot' = Reach(fired_slot, DOMAIN objs')
    /\ last_call' = NoCall
    /\ UNCHANGED <<clock, check_interval, observe, scheduled_tasks,
                   running, used, once_ids, fired>>

\* asyncio.sleep returns and `while self.running` holds: the next tick
WakeTick ==
    /\ UNCHANGED workerVars
    /\ pc = "sleep"
    /\ clock >= wake_at
    /\ running
    /\ BeginTick(objs)
    /\ fired_slot' = Reach(fired_slot, DOMAIN objs')
    /\ last_call' = NoCall
    /\ UNCHANGED <<clock, check_interval, observe, scheduled_tasks,
                   running, used, once_ids, fired>>

\* asyncio.sleep returns and `while self.running` fails: start() returns
WakeExit ==
    /\ UNCHANGED workerVars
    /\ pc = "sleep"
    /\ clock >= wake_at
    /\ ~running
    /\ pc' = "stopped"
    /\ last_call' = NoCall
    /\ UNCHANGED <<clock, check_interval, observe, scheduled_tasks, objs,
                   pending_queue, running, now, snap, cur, wake_at, used,
                   once_ids, fired, fired_slot, tick_due, tick_tried>>

\* NextRunAfterQueue at a fixed rate: the interval added to the old next_run
NextRunAfterQueue_FixedRate(o, task_id) ==
    IF o[task_id].schedule_type = "cron"
    THEN IF task_id \in Range(scheduled_tasks)
         THEN _update_next_cron_run(o, task_id)
         ELSE o
    ELSE [o EXCEPT ![task_id].next_run = @ + o[task_id].interval]

\* lines 227-231: the next run of the task just queued
NextRunAfterQueue(o, task_id) ==
    IF o[task_id].schedule_type = "cron"
    THEN IF task_id \in Range(scheduled_tasks)
         THEN _update_next_cron_run(o, task_id)
         ELSE o      \* self.scheduled_tasks[task_id] raises KeyError, caught
    ELSE [o EXCEPT ![task_id].next_run = clock + o[task_id].interval]

\* QueueResidentReturn with the task just queued put back into the map
QueueResidentReturn_Reinserts ==
    /\ UNCHANGED workerVars
    /\ pc = "queue_resident"
    /\ tick_tried' = Append(tick_tried, [task_id |-> cur.task_id, ok |-> TRUE])
    /\ scheduled_tasks' = IF cur.task_id \in Range(scheduled_tasks)
                          THEN scheduled_tasks
                          ELSE Append(scheduled_tasks, cur.task_id)
    /\ LET o == [objs EXCEPT ![cur.task_id].next_run =
                     IF objs[cur.task_id].schedule_type = "cron"
                     THEN get_next(objs[cur.task_id].cron_expression, clock)
                     ELSE clock + objs[cur.task_id].interval]
           r == SkipNotDue(snap, o, now)
       IN  /\ pc' = IF r # <<>> THEN "queue_resident"
                    ELSE IF HeapDue(pending_queue, now) THEN "queue_once"
                    ELSE "sleep"
           /\ cur' = IF r # <<>> THEN ResidentCall(Head(r), o)
                     ELSE IF HeapDue(pending_queue, now)
                     THEN OnceCall(heappop_item(pending_queue))
                     ELSE NoCur
           /\ snap' = IF r # <<>> THEN Tail(r) ELSE <<>>
           /\ pending_queue' = IF r = <<>> /\ HeapDue(pending_queue, now)
                               THEN heappop_rest(pending_queue)
                               ELSE pending_queue
           /\ objs' = Reach(o, Range(scheduled_tasks') \cup Range(r))
           /\ wake_at' = IF r = <<>> /\ ~HeapDue(pending_queue, now)
                         THEN clock + check_interval ELSE wake_at
    /\ fired_slot' = Reach([fired_slot EXCEPT ![cur.task_id] = cur.slot],
                           DOMAIN objs')
    /\ last_call' = NoCall
    /\ UNCHANGED <<clock, check_interval, observe, running, now, used,
                   once_ids, fired, tick_due>>

\* _execute_scheduled_task: queue_task returned
QueueResidentReturn ==
    /\ UNCHANGED workerVars
    /\ pc = "queue_resident"
    /\ tick_tried' = Append(tick_tried, [task_id |-> cur.task_id, ok |-> TRUE])
    /\ Proceed(snap, NextRunAfterQueue(objs, cur.task_id), pending_queue, now)
    /\ fired_slot' = Reach([fired_slot EXCEPT ![cur.task_id] = cur.slot],
                           DOMAIN objs')
    /\ last_call' = NoCall
    /\ UNCHANGED <<clock, check_interval, observe, scheduled_tasks,
                   running, now, used, once_ids, fired, tick_due>>

\* QueueResidentRaise with the next run moved on although queue_task raised
QueueResidentRaise_Advances ==
    /\ UNCHANGED workerVars
    /\ pc = "queue_resident"
    /\ tick_tried' = Append(tick_tried, [task_id |-> cur.task_id, ok |-> FALSE])
    /\ Proceed(snap, NextRunAfterQueue(objs, cur.task_id), pending_queue, now)
    /\ fired_slot' = Reach(fired_slot, DOMAIN objs')
    /\ last_call' = NoCall
    /\ UNCHANGED <<clock, check_interval, observe, scheduled_tasks,
                   running, now, used, once_ids, fired, tick_due>>

\* _execute_scheduled_task: queue_task raised, the handler logs it
QueueResidentRaise ==
    /\ UNCHANGED workerVars
    /\ pc = "queue_resident"
    /\ tick_tried' = Append(tick_tried, [task_id |-> cur.task_id, ok |-> FALSE])
    /\ Proceed(snap, objs, pending_queue, now)
    /\ fired_slot' = Reach(fired_slot, DOMAIN objs')
    /\ last_call' = NoCall
    /\ UNCHANGED <<clock, check_interval, observe, scheduled_tasks,
                   running, now, used, once_ids, fired, tick_due>>

\* _execute_one_time_task: queue_task returned
QueueOnceReturn ==
    /\ UNCHANGED workerVars
    /\ pc = "queue_once"
    /\ fired' = [fired EXCEPT ![cur.task_id].ok = @ + 1]
    /\ tick_tried' = Append(tick_tried, [task_id |-> cur.task_id, ok |-> TRUE])
    /\ Proceed(snap, objs, pending_queue, now)
    /\ last_call' = NoCall
    /\ UNCHANGED <<clock, check_interval, observe, scheduled_tasks,
                   running, now, used, once_ids, fired_slot, tick_due>>

\* QueueOnceRaise without the try/except: the error leaves start()
QueueOnceRaise_Escapes ==
    /\ UNCHANGED workerVars
    /\ pc = "queue_once"
    /\ pc' = "crashed"
    /\ fired' = [fired EXCEPT ![cur.task_id].err = @ + 1]
    /\ tick_tried' = Append(tick_tried, [task_id |-> cur.task_id, ok |-> FALSE])
    /\ last_call' = NoCall
    /\ UNCHANGED <<clock, check_interval, observe, scheduled_tasks, objs,
                   pending_queue, running, now, snap, cur, wake_at, used,
                   once_ids, fired_slot, tick_due>>

\* QueueOnceRaise with the entry pushed back on the heap by the handler
QueueOnceRaise_Requeues ==
    /\ UNCHANGED workerVars
    /\ pc = "queue_once"
    /\ fired' = [fired EXCEPT ![cur.task_id].err = @ + 1]
    /\ tick_tried' = Append(tick_tried, [task_id |-> cur.task_id, ok |-> FALSE])
    /\ pc' = "sleep"
    /\ cur' = NoCur
    /\ snap' = <<>>
    /\ pending_queue' = heappush(pending_queue,
           [ts |-> cur.slot, priority |-> cur.priority,
            task_id |-> cur.task_id, inserted_at |-> clock])
    /\ wake_at' = clock + check_interval
    /\ last_call' = NoCall
    /\ UNCHANGED <<clock, check_interval, observe, scheduled_tasks, objs,
                   running, now, used, once_ids, fired_slot, tick_due>>

\* _execute_one_time_task: queue_task raised, the handler logs it
QueueOnceRaise ==
    /\ UNCHANGED workerVars
    /\ pc = "queue_once"
    /\ fired' = [fired EXCEPT ![cur.task_id].err = @ + 1]
    /\ tick_tried' = Append(tick_tried, [task_id |-> cur.task_id, ok |-> FALSE])
    /\ Proceed(snap, objs, pending_queue, now)
    /\ last_call' = NoCall
    /\ UNCHANGED <<clock, check_interval, observe, scheduled_tasks,
                   running, now, used, once_ids, fired_slot, tick_due>>

\* time passes
AdvanceClock ==
    /\ UNCHANGED workerVars
    /\ clock < MaxTime
    /\ clock' = clock + 1
    /\ last_call' = NoCall
    /\ UNCHANGED <<check_interval, observe, scheduled_tasks, objs,
                   pending_queue, running, used, once_ids, fired, fired_slot>>
    /\ UNCHANGED loopVars

Next ==
    \/ \E e \in CronInputs, p \in ResidentPriorities : schedule_cron(e, p)
    \/ \E n \in IntervalInputs, p \in ResidentPriorities :
          schedule_interval(n, p)
    \/ \E d \in -1..2, p \in Priorities : schedule_once(clock + d, p)
    \/ \E i \in Ids : remove_task(i)
    \/ stop
    \/ start
    \/ WakeTick
    \/ WakeExit
    \/ QueueResidentReturn
    \/ QueueResidentRaise
    \/ QueueOnceReturn
    \/ QueueOnceRaise
    \/ AdvanceClock

Spec == Init /\ [][Next]_vars

\* the steps of the scheduler over a shorter run of the clock and with
\* run_at up to one unit ahead
NextCalls ==
    \/ \E e \in CronInputs, p \in ResidentPriorities : schedule_cron(e, p)
    \/ \E n \in IntervalInputs, p \in ResidentPriorities :
          schedule_interval(n, p)
    \/ \E d \in -1..1, p \in Priorities : schedule_once(clock + d, p)
    \/ \E i \in Ids : remove_task(i)
    \/ stop
    \/ start
    \/ WakeTick
    \/ WakeExit
    \/ QueueResidentReturn
    \/ QueueResidentRaise
    \/ QueueOnceReturn
    \/ QueueOnceRaise
    \/ clock < MaxTime - 1 /\ AdvanceClock

SpecCalls == InitCalls /\ [][NextCalls]_vars


(* ===================== one-time ordering (C1) ========================= *)
InFlightOnce == pc = "queue_once"

\* C1 (as stated): while a one-time task is being enqueued, every entry
\* still in the heap has a later run_at, or the same run_at and a priority
\* value that is not higher: earlier run_at first, higher priority first on
\* ties.
C1_HigherPriorityFirst ==
    InFlightOnce =>
        \A i \in 1..Len(pending_queue) :
            \/ cur.slot < pending_queue[i].ts
            \/ /\ cur.slot = pending_queue[i].ts
               /\ cur.priority >= pending_queue[i].priority

\* C1 (amended): the one-time task being enqueued was popped ahead of every
\* entry still in the heap: it has the earlier run_at whatever the
\* priorities, or the same run_at and a priority value that is not higher
\* (the lower priority value is popped first on ties).
C1_EarlierThenLowerPriority ==
    InFlightOnce =>
        \A i \in 1..Len(pending_queue) :
            \/ cur.slot < pending_queue[i].ts
            \/ /\ cur.slot = pending_queue[i].ts
               /\ cur.priority <= pending_queue[i].priority

\* a tie on run_at with different priorities: the lower value is in flight
C1_Witness ==
    /\ InFlightOnce
    /\ \E i \in 1..Len(pending_queue) :
          /\ pending_queue[i].ts = cur.slot
          /\ pending_queue[i].priority > cur.priority

(* =================== one-time single fire (C2) ======================== *)
Consumed(id) ==
    /\ id \in once_ids
    /\ id \notin HeapIds(pending_queue)
    /\ ~(InFlightOnce /\ cur.task_id = id)

\* C2 (as stated): a one-time task that has left the heap and whose enqueue
\* is over has been enqueued exactly once.
C2_ExactlyOnce ==
    \A id \in once_ids : Consumed(id) => fired[id].ok = 1

\* C2 (amended): a one-time task is popped by a tick whose now is >= its
\* run_at and queue_task is called for it exactly once; it is enqueued once
\* if that call returns and never if it raises; once popped its entry is
\* never in the heap again and it is never enqueued again.
C2_AtMostOnceInv ==
    /\ \A id \in once_ids :
          /\ fired[id].ok + fired[id].err <= 1
          /\ Consumed(id) => fired[id].ok + fired[id].err = 1
          /\ id \in HeapIds(pending_queue) => fired[id].ok + fired[id].err = 0
    /\ InFlightOnce =>
          /\ cur.slot <= timestamp(now)
          /\ cur.task_id \in once_ids
          /\ cur.task_id \notin HeapIds(pending_queue)
          /\ fired[cur.task_id].ok + fired[cur.task_id].err = 0

C2_AtMostOnceStep ==
    \A id \in once_ids :
        /\ id \notin HeapIds(pending_queue) => id \notin HeapIds(pending_queue')
        /\ fired'[id] # fired[id] => InFlightOnce /\ cur.task_id = id

C2_AtMostOnce == [](C2_AtMostOnceInv) /\ [][C2_AtMostOnceStep]_vars

\* a one-time task was enqueued by a tick that ran later than its run_at
C2_Witness ==
    \E id \in once_ids :
        /\ Consumed(id)
        /\ fired[id].ok = 1
        /\ \E j \in 1..Len(tick_tried) : tick_tried[j].task_id = id
        /\ pc = "sleep"
        /\ clock > now

(* ===================== one run per tick (C3) ========================== *)
TickOver == pc \notin {"idle", "queue_resident", "queue_once"}

Tried(id) == {j \in 1..Len(tick_tried) : tick_tried[j].task_id = id}
Queued(id) == {j \in Tried(id) : tick_tried[j].ok}

ResidentDue == tick_due \ once_ids

\* C3 (as stated): when a tick is over, every resident task that was due in
\* it has been enqueued exactly once in it.
C3_EnqueuedExactlyOnce ==
    TickOver => \A id \in ResidentDue : Cardinality(Queued(id)) = 1

\* C3 (amended): in every tick queue_task is called exactly once for each
\* resident task whose next_run <= now, however late the tick is, and for
\* no other resident task; the task is enqueued once if the call returns
\* and not at all if it raises; all the calls are made before the tick ends.
C3_OneCallPerDueTask ==
    /\ \A id \in ResidentDue : Cardinality(Tried(id)) <= 1
    /\ \A j \in 1..Len(tick_tried) : tick_tried[j].task_id \in tick_due
    /\ pc = "queue_resident" =>
          cur.task_id \in ResidentDue /\ Tried(cur.task_id) = {}
    /\ TickOver => \A id \in ResidentDue : Cardinality(Tried(id)) = 1

\* a tick at least two intervals late enqueued the interval task once
C3_Witness ==
    /\ pc = "sleep"
    /\ \E id \in ResidentDue :
          /\ id \in DOMAIN objs
          /\ objs[id].schedule_type = "interval"
          /\ Cardinality(Queued(id)) = 1
          /\ now - fired_slot[id] >= 2 * objs[id].interval

(* ================= next_run after now (C4) ============================ *)
ResidentReturned ==
    /\ pc = "queue_resident"
    /\ Len(tick_tried') = Len(tick_tried) + 1
    /\ tick_tried'[Len(tick_tried')].ok

\* C4: schedule_cron leaves next_run strictly after the registration time;
\* when a tick at time now has enqueued a resident task, that task's
\* next_run is strictly greater than now, and the slot of every Task
\* enqueued for it is strictly later than the slot of the one before.
C4_RegisteredStep ==
    \A id \in Range(scheduled_tasks') \ Range(scheduled_tasks) :
        objs'[id].schedule_type = "cron" => objs'[id].next_run > clock

C4_FiredStep ==
    ResidentReturned =>
        /\ cur.task_id \in Range(scheduled_tasks) =>
              /\ objs'[cur.task_id].next_run > now
              /\ objs'[cur.task_id].next_run > cur.slot
        /\ cur.slot <= now
        /\ fired_slot[cur.task_id] # None => cur.slot > fired_slot[cur.task_id]

C4_NextRunAfterNow == [][C4_RegisteredStep /\ C4_FiredStep]_vars

\* a cron task was enqueued by a tick that ran exactly on its slot
C4_Witness ==
    /\ pc = "sleep"
    /\ \E id \in Range(scheduled_tasks) :
          /\ objs[id].schedule_type = "cron"
          /\ fired_slot[id] = now
          /\ Cardinality(Queued(id)) = 1
          /\ objs[id].next_run > now
          /\ now > 1

(* ================== interval next_run (C5) ============================ *)
IntervalIds == {id \in DOMAIN objs : objs[id].schedule_type = "interval"}

\* C5 (as stated): consecutive values of an interval task's next_run differ
\* by exactly its interval.
C5_ExactlyN ==
    [][\A id \in IntervalIds \cap DOMAIN objs' :
          objs'[id].next_run # objs[id].next_run =>
              objs'[id].next_run - objs[id].next_run = objs[id].interval]_vars

\* C5 (amended): consecutive values of an interval task's next_run differ by
\* at least its interval: the new value is the interval added to the time
\* at which the enqueue completed, which is never before the old value.
C5_AtLeastN ==
    [][\A id \in IntervalIds \cap DOMAIN objs' :
          objs'[id].next_run # objs[id].next_run =>
              /\ objs'[id].next_run = clock + objs[id].interval
              /\ objs'[id].next_run - objs[id].next_run >= objs[id].interval
              /\ objs'[id].interval = objs[id].interval]_vars

\* an interval task fired late: its next_run moved by more than the interval
C5_Witness ==
    \E id \in IntervalIds :
        /\ id \in DOMAIN fired_slot
        /\ fired_slot[id] # None
        /\ objs[id].next_run - fired_slot[id] > objs[id].interval

(* ================= rejected registrations (C6) ======================== *)
BadInput(c) ==
    \/ c.op = "schedule_cron" /\ ~_is_cron_expression(c.expr)
    \/ c.op = "schedule_interval" /\ c.arg <= 0
    \/ c.op = "schedule_once" /\ c.arg <= clock

\* C6: schedule_cron with an unparsable expression, schedule_interval with
\* interval_seconds <= 0 and schedule_once with run_at <= now raise, and
\* the call leaves the resident map and the one-time heap as they were.
C6_RejectedUnchanged ==
    [][BadInput(last_call') =>
          /\ last_call'.raised
          /\ scheduled_tasks' = scheduled_tasks
          /\ objs' = objs
          /\ pending_queue' = pending_queue
          /\ used' = used]_vars

\* schedule_once(run_at = now) has just raised, with both stores non-empty
\* and the loop asleep
C6_Witness ==
    /\ last_call.op = "schedule_once"
    /\ last_call.arg = clock
    /\ last_call.raised
    /\ scheduled_tasks # <<>>
    /\ pending_queue # <<>>
    /\ pc = "sleep"

(* ============== one-time tasks stay in the heap (C7) ================== *)
\* get_task_info(task_id): the snapshot, or none
get_task_info(task_id) ==
    IF task_id \in Range(scheduled_tasks)
    THEN <<[task_id |-> task_id,
            schedule_type |-> objs[task_id].schedule_type,
            next_run |-> objs[task_id].next_run,
            priority |-> objs[task_id].priority]>>
    ELSE <<>>

\* C7: no id returned by schedule_once is a key of the resident map, so
\* get_task_info returns none for it, and every heap entry was inserted
\* with run_at strictly after the time of insertion.
C7_OnceOnlyInHeap ==
    /\ \A id \in once_ids :
          /\ id \notin Range(scheduled_tasks)
          /\ get_task_info(id) = <<>>
    /\ \A i \in 1..Len(pending_queue) :
          /\ pending_queue[i].ts > timestamp(pending_queue[i].inserted_at)
          /\ pending_queue[i].task_id \in once_ids

\* after a tick, a one-time entry waits in the heap and the resident task
\* registered beside it has been removed
C7_Witness ==
    /\ pending_queue # <<>>
    /\ used \ (once_ids \cup Range(scheduled_tasks)) # {}
    /\ pc = "sleep"

(* ========================= remove_task (C8) =========================== *)
\* C8: remove_task(id) on a resident id returns true and deletes that key
\* only; on any other id it returns false and deletes nothing; the
\* one-time heap is never touched.
C8_RemoveFrame ==
    [][last_call'.op = "remove_task" =>
          /\ pending_queue' = pending_queue
          /\ fired' = fired
          /\ IF last_call'.arg \in Range(scheduled_tasks)
             THEN /\ last_call'.ret = 1
                  /\ Range(scheduled_tasks') =
                         Range(scheduled_tasks) \ {last_call'.arg}
                  /\ Len(scheduled_tasks') = Len(scheduled_tasks) - 1
                  /\ \A id \in Range(scheduled_tasks') : objs'[id] = objs[id]
             ELSE /\ last_call'.ret = 0
                  /\ scheduled_tasks' = scheduled_tasks
                  /\ objs' = objs]_vars

\* remove_task has just returned false for a queued one-time task, after
\* it returned true for a resident one
C8_Witness ==
    /\ last_call.op = "remove_task"
    /\ last_call.ret = 0
    /\ last_call.arg \in HeapIds(pending_queue)
    /\ used \ (once_ids \cup Range(scheduled_tasks)) # {}

(* =================== a failed enqueue (C9) ============================ *)
Failed == {j \in 1..Len(tick_tried) : ~tick_tried[j].ok}

\* C9: a queue_task call that raises ends inside the tick: the tick goes
\* on, every task due in it (resident or one-time) still has its
\* queue_task call made, is enqueued if that call returns, and the loop
\* reaches its sleep.
C9_TickSurvivesInv ==
    /\ pc \in {"idle", "queue_resident", "queue_once", "sleep", "stopped"}
    /\ TickOver =>
          \A id \in tick_due : Cardinality(Tried(id)) = 1
    /\ (TickOver /\ Cardinality(Failed) = 1) =>
          \A id \in tick_due :
              Cardinality(Queued(id)) = 1
              \/ \E j \in Failed : tick_tried[j].task_id = id

C9_TickSurvivesStep ==
    (Len(tick_tried') = Len(tick_tried) + 1
     /\ ~tick_tried'[Len(tick_tried')].ok) =>
        /\ pc' \in {"queue_resident", "queue_once", "sleep"}
        /\ pc' = "sleep" => wake_at' = clock + check_interval

C9_TickSurvives == [](C9_TickSurvivesInv) /\ [][C9_TickSurvivesStep]_vars

\* the first call of a tick raised and the second task was still enqueued
C9_Witness ==
    /\ pc = "sleep"
    /\ Len(tick_tried) = 2
    /\ ~tick_tried[1].ok
    /\ tick_tried[2].ok

(* ========================= stop() (C10) =============================== *)
\* C10: stop() leaves the enqueue in flight and the rest of the tick
\* alone; the loop exits the next time it tests the flag; once it has seen
\* the flag false nothing is enqueued.
C10_StopStep ==
    /\ (running /\ ~running') =>
          UNCHANGED <<pc, cur, snap, now, pending_queue, objs, tick_due,
                      tick_tried, fired, fired_slot>>
    /\ (pc = "sleep" /\ pc' # "sleep" /\ ~running) => pc' = "stopped"
    /\ (pc = "sleep" /\ pc' = "stopped") => ~running
    /\ pc = "stopped" =>
          /\ pc' = "stopped"
          /\ UNCHANGED <<tick_tried, cur, now>>
          /\ \A id \in DOMAIN fired : fired'[id] = fired[id]
          /\ \A id \in DOMAIN fired_slot \cap DOMAIN fired_slot' :
                fired_slot'[id] = fired_slot[id]
    /\ (~running /\ pc # "idle") => ~running'

C10_StopAtLoopBoundary == [][C10_StopStep]_vars

\* stop() was called with an enqueue in flight, which then returned
C10_Witness ==
    /\ ~running
    /\ pc = "queue_once"
    /\ tick_tried # <<>>
    /\ tick_tried[Len(tick_tried)].ok


(* ====================================================================== *)
(* BaseTask.run (src/src/tasks/base.py): the wrapper around the abstract  *)
(* execute().  before_execute and after_execute are hooks a task may     *)
(* override (no-ops in BaseTask): they return or raise.  execute() is the *)
(* task author's code: it takes some time and returns or raises.          *)
(* ====================================================================== *)
Timeouts == {None} \cup 0..MaxTimeout    \* Optional[int]; None when not set

Contexts ==
    [attempt : Attempts, max_attempts : MaxAttemptsInputs, timeout : Timeouts]

\* `if context.timeout:` then asyncio.wait_for(execute, timeout): the wait
\* is only made for a truthy timeout, and expires when execute takes longer
Expires(ctx, d) ==
    /\ ctx.timeout # None
    /\ ctx.timeout # 0
    /\ d > ctx.timeout

\* `if context.attempt < context.max_attempts` with its off-by-one slip
ShouldRetry_Inclusive(ctx) == ctx.attempt <= ctx.max_attempts

\* `if context.attempt < context.max_attempts`
ShouldRetry(ctx) == ctx.attempt < ctx.max_attempts

\* a failure taken by `except Exception`: record_failure, then either
\* attempt += 1 and run(context) again from within the handler (what the
\* inner run raises is not handled a second time), or re-raise
RunFailed(what) ==
    /\ history' = Append(history, what)
    /\ IF ShouldRetry(context)
       THEN /\ context' = [context EXCEPT !.attempt = @ + 1]
            /\ run_pc' = "before"
       ELSE /\ run_pc' = "raised"
            /\ UNCHANGED context
    /\ UNCHANGED entry

\* run(context) entered: start_time, then before_execute is awaited
run(ctx) ==
    /\ run_pc \in {"idle", "returned", "raised", "timed_out"}
    /\ context' = ctx
    /\ entry' = ctx
    /\ history' = <<>>
    /\ run_pc' = "before"
    /\ UNCHANGED notRun

\* before_execute returned: execute is awaited
BeforeExecuteReturn ==
    /\ run_pc = "before"
    /\ run_pc' = "execute"
    /\ UNCHANGED <<context, history, entry>>
    /\ UNCHANGED notRun

\* an overridden before_execute raised
BeforeExecuteRaise ==
    /\ run_pc = "before"
    /\ RunFailed("before_raised")
    /\ UNCHANGED notRun

\* execute returned in time: after_execute is awaited
ExecuteReturn ==
    /\ run_pc = "execute"
    /\ \E d \in Durations : ~Expires(context, d)
    /\ history' = Append(history, "returned")
    /\ run_pc' = "after"
    /\ UNCHANGED <<context, entry>>
    /\ UNCHANGED notRun

\* a timeout handled as any other failure would be
ExecuteTimeout_Retries ==
    /\ run_pc = "execute"
    /\ \E d \in Durations : Expires(context, d)
    /\ RunFailed("expired")
    /\ UNCHANGED notRun

\* wait_for expires: except asyncio.TimeoutError: record_timeout, raise
ExecuteTimeout ==
    /\ run_pc = "execute"
    /\ \E d \in Durations : Expires(context, d)
    /\ history' = Append(history, "expired")
    /\ run_pc' = "timed_out"
    /\ UNCHANGED <<context, entry>>
    /\ UNCHANGED notRun

\* execute itself raises asyncio.TimeoutError (a timed wait of its own):
\* the same except clause takes it
ExecuteRaiseTimeout ==
    /\ run_pc = "execute"
    /\ \E d \in Durations : ~Expires(context, d)
    /\ history' = Append(history, "timeout")
    /\ run_pc' = "timed_out"
    /\ UNCHANGED <<context, entry>>
    /\ UNCHANGED notRun

\* execute raises another Exception in time
ExecuteRaise ==
    /\ run_pc = "execute"
    /\ \E d \in Durations : ~Expires(context, d)
    /\ RunFailed("raised")
    /\ UNCHANGED notRun

\* after_execute returned: record_success, return result
AfterExecuteReturn ==
    /\ run_pc = "after"
    /\ run_pc' = "returned"
    /\ UNCHANGED <<context, history, entry>>
    /\ UNCHANGED notRun

\* AfterExecuteRaise with the hook awaited after the try: its error leaves
\* run() without a retry
AfterExecuteRaise_Propagates ==
    /\ run_pc = "after"
    /\ history' = Append(history, "after_raised")
    /\ run_pc' = "raised"
    /\ UNCHANGED <<context, entry>>
    /\ UNCHANGED notRun

\* an overridden after_execute raised, inside the same try
AfterExecuteRaise ==
    /\ run_pc = "after"
    /\ RunFailed("after_raised")
    /\ UNCHANGED notRun

\* after_execute returned and metrics.record_success raised, inside the
\* same try
RecordSuccessRaise ==
    /\ run_pc = "after"
    /\ RunFailed("metrics_raised")
    /\ UNCHANGED notRun

NextRun ==
    \/ \E ctx \in Contexts : run(ctx)
    \/ BeforeExecuteReturn
    \/ BeforeExecuteRaise
    \/ ExecuteReturn
    \/ ExecuteTimeout
    \/ ExecuteRaiseTimeout
    \/ ExecuteRaise
    \/ AfterExecuteReturn
    \/ AfterExecuteRaise
    \/ RecordSuccessRaise

\* the scheduler as constructed and left alone
SchedulerAside == Constructed /\ check_interval = 1 /\ observe = FALSE

InitRun == SchedulerAside /\ WorkerIdle

SpecRun == InitRun /\ [][NextRun]_vars


(* ===================== retry exhaustion (C11) ========================= *)
\* every execute() invocation of this run() so far raised a non-timeout error
AlwaysRaises == \A i \in 1..Len(history) : history[i] = "raised"

ExecuteOutcomes == {"returned", "raised", "expired", "timeout"}

Count(h, labels) == Cardinality({i \in 1..Len(h) : h[i] \in labels})

\* execute() invocations of this run(), the one in flight included
Invocations ==
    Count(history, ExecuteOutcomes) + (IF run_pc = "execute" THEN 1 ELSE 0)

Ended == run_pc \in {"returned", "raised", "timed_out"}

AttemptsDue(ctx) == IF ctx.max_attempts < 1 THEN 1 ELSE ctx.max_attempts

\* C11 (as stated): entered with attempt = 1, a run() whose execute always
\* raises never invokes execute more than max_attempts times, and ends by
\* re-raising after exactly max_attempts invocations.
C11_ExactlyMaxAttempts ==
    (run_pc # "idle" /\ entry.attempt = 1 /\ AlwaysRaises) =>
        /\ Invocations <= entry.max_attempts
        /\ Ended =>
               /\ run_pc = "raised"
               /\ Invocations = entry.max_attempts

\* C11 (amended): entered with attempt = 1, a run() whose execute always
\* raises never invokes execute more than max(max_attempts, 1) times, and
\* ends by re-raising after exactly max(max_attempts, 1) invocations: the
\* first invocation is made whatever max_attempts is.
C11_MaxAttemptsAtLeastOnce ==
    (run_pc # "idle" /\ entry.attempt = 1 /\ AlwaysRaises) =>
        /\ Invocations <= AttemptsDue(entry)
        /\ Ended =>
               /\ run_pc = "raised"
               /\ Invocations = AttemptsDue(entry)

C11_Witness ==
    /\ run_pc = "raised"
    /\ entry.attempt = 1
    /\ entry.max_attempts = MaxAttempts
    /\ AlwaysRaises
    /\ Len(history) = MaxAttempts

(* ===================== timeout is terminal (C12) ====================== *)
\* the failures that `except Exception` takes
Failures == {"raised", "before_raised", "after_raised", "metrics_raised"}

\* C12: an execute() invocation that outlasts context.timeout is the last
\* one of its run(): run() has raised the timeout error, and attempt has
\* only been incremented by the non-timeout failures before it.
C12_TimeoutTerminal ==
    \A i \in 1..Len(history) :
        history[i] = "expired" =>
            /\ i = Len(history)
            /\ run_pc = "timed_out"
            /\ context.attempt = entry.attempt + Count(history, Failures)

\* a timeout on a retry, with attempts left
C12_Witness ==
    /\ run_pc = "timed_out"
    /\ Len(history) >= 2
    /\ history[Len(history)] = "expired"
    /\ history[1] = "raised"
    /\ context.attempt < context.max_attempts


(* ====================================================================== *)
(* TaskExecutor.execute (src/src/executors/base.py).  _execute_task is    *)
(* abstract: it returns or raises.  _can_execute, _post_process and       *)
(* _handle_error are called on self and defined nowhere in the sources:   *)
(* the first two return or raise, the third is the shared error handler   *)
(* of the design (retry while retry_count < max_retries, else failure).   *)
(* ====================================================================== *)
Tasks ==
    { t \in [retry_count : 0..MaxRetries, max_retries : 0..MaxRetries] :
          t.retry_count <= t.max_retries }

\* the shared error handler: the Task and the TaskResult it leaves
_handle_error(t) ==
    IF t.retry_count < t.max_retries
    THEN [task |-> [t EXCEPT !.retry_count = @ + 1],
          result |-> [status |-> "retry", error |-> "error"]]
    ELSE [task |-> t,
          result |-> [status |-> "failure", error |-> "error"]]

\* an exception of a hook that leaves execute() instead of being handled
Handled_Escapes(hook) ==
    /\ exec_raised' = hook
    /\ exec_pc' = "raised"
    /\ UNCHANGED <<exec_task, exec_result>>

\* except Exception as e: return await self._handle_error(task, e)
Handled(hook) ==
    /\ exec_raised' = hook
    /\ exec_task' = _handle_error(exec_task).task
    /\ exec_result' = _handle_error(exec_task).result
    /\ exec_pc' = "returned"

\* execute(task) entered: _can_execute is awaited
execute(t) ==
    /\ exec_pc \in {"idle", "returned"}
    /\ exec_calls < MaxCalls
    /\ IF exec_pc = "idle" THEN exec_task' = t ELSE UNCHANGED exec_task
    /\ exec_pc' = "can_execute"
    /\ exec_result' = NoResult
    /\ invoked' = {"_can_execute"}
    /\ exec_entry' = exec_task'.retry_count
    /\ precheck' = "none"
    /\ exec_raised' = "none"
    /\ exec_calls' = exec_calls + 1
    /\ UNCHANGED notExec

\* _can_execute returned true: _execute_task is awaited
CanExecuteTrue ==
    /\ exec_pc = "can_execute"
    /\ precheck' = "true"
    /\ exec_pc' = "execute_task"
    /\ invoked' = invoked \cup {"_execute_task"}
    /\ UNCHANGED <<exec_task, exec_result, exec_entry, exec_raised, exec_calls>>
    /\ UNCHANGED notExec

\* a false pre-check that is not looked at
CanExecuteFalse_Ignored ==
    /\ exec_pc = "can_execute"
    /\ precheck' = "false"
    /\ exec_pc' = "execute_task"
    /\ invoked' = invoked \cup {"_execute_task"}
    /\ UNCHANGED <<exec_task, exec_result, exec_entry, exec_raised, exec_calls>>
    /\ UNCHANGED notExec

\* _can_execute returned false: the failure result is returned at once
CanExecuteFalse ==
    /\ exec_pc = "can_execute"
    /\ precheck' = "false"
    /\ exec_pc' = "returned"
    /\ exec_result' = [status |-> "failure",
                       error |-> "Task cannot be executed"]
    /\ UNCHANGED <<exec_task, invoked, exec_entry, exec_raised, exec_calls>>
    /\ UNCHANGED notExec

\* _can_execute raised
CanExecuteRaise ==
    /\ exec_pc = "can_execute"
    /\ precheck' = "raised"
    /\ Handled("_can_execute")
    /\ UNCHANGED <<invoked, exec_entry, exec_calls>>
    /\ UNCHANGED notExec

\* _execute_task returned: _post_process is awaited
ExecuteTaskReturn ==
    /\ exec_pc = "execute_task"
    /\ exec_pc' = "post_process"
    /\ invoked' = invoked \cup {"_post_process"}
    /\ UNCHANGED <<exec_task, exec_result, exec_entry, precheck, exec_raised,
                   exec_calls>>
    /\ UNCHANGED notExec

\* _execute_task raised
ExecuteTaskRaise ==
    /\ exec_pc = "execute_task"
    /\ Handled("_execute_task")
    /\ UNCHANGED <<invoked, exec_entry, precheck, exec_calls>>
    /\ UNCHANGED notExec

\* _post_process returned: the success result is returned
PostProcessReturn ==
    /\ exec_pc = "post_process"
    /\ exec_pc' = "returned"
    /\ exec_result' = [status |-> "success", error |-> "none"]
    /\ UNCHANGED <<exec_task, invoked, exec_entry, precheck, exec_raised,
                   exec_calls>>
    /\ UNCHANGED notExec

\* _post_process raised
PostProcessRaise ==
    /\ exec_pc = "post_process"
    /\ Handled("_post_process")
    /\ UNCHANGED <<invoked, exec_entry, precheck, exec_calls>>
    /\ UNCHANGED notExec

NextExec ==
    \/ \E t \in Tasks : execute(t)
    \/ CanExecuteTrue
    \/ CanExecuteFalse
    \/ CanExecuteRaise
    \/ ExecuteTaskReturn
    \/ ExecuteTaskRaise
    \/ PostProcessReturn
    \/ PostProcessRaise

InitExec == SchedulerAside /\ WorkerIdle

SpecExec == InitExec /\ [][NextExec]_vars


(* ===================== failed pre-check (C13) ========================= *)
\* C13: once _can_execute has returned false, execute() has returned the
\* failure result with error "Task cannot be executed", has invoked neither
\* _execute_task nor _post_process, and task.retry_count is what it was on
\* entry.
C13_PrecheckFalse ==
    precheck = "false" =>
        /\ exec_pc = "returned"
        /\ exec_result = [status |-> "failure",
                          error |-> "Task cannot be executed"]
        /\ "_execute_task" \notin invoked
        /\ "_post_process" \notin invoked
        /\ exec_task.retry_count = exec_entry

\* the pre-check failed on a Task that had been retried before
C13_Witness ==
    /\ precheck = "false"
    /\ exec_pc = "returned"
    /\ exec_entry > 0

(* ===================== handled errors (C14) =========================== *)
\* C14: no exception leaves execute(); once a hook has raised, execute()
\* has returned status retry with retry_count one more than on entry if
\* retry_count < max_retries held on entry, and status failure with
\* retry_count unchanged otherwise; retry_count never exceeds max_retries.
C14_ErrorsHandled ==
    /\ exec_pc # "raised"
    /\ exec_task.retry_count <= exec_task.max_retries
    /\ exec_raised # "none" =>
           /\ exec_pc = "returned"
           /\ IF exec_entry < exec_task.max_retries
              THEN /\ exec_result.status = "retry"
                   /\ exec_task.retry_count = exec_entry + 1
              ELSE /\ exec_result.status = "failure"
                   /\ exec_task.retry_count = exec_entry

\* the last of the calls on one always-failing Task: the retries are used up
C14_Witness ==
    /\ exec_raised = "_post_process"
    /\ exec_result.status = "failure"
    /\ exec_task.retry_count = exec_task.max_retries
    /\ exec_entry = exec_task.max_retries
    /\ exec_task.max_retries = MaxRetries
    /\ exec_calls = MaxCalls


(* ====================================================================== *)
(* DistributedTaskExecutor._process_tasks (src/src/executors/             *)
(* distributed.py): one step of the executor's loop.  The spaces belong   *)
(* to the framework: put appends, take removes and returns the first item *)
(* its predicate accepts, returns None when there is none within the      *)
(* timeout, and may raise.  task.run is BaseTask.run above.               *)
(* ====================================================================== *)
\* the contexts of the items of the task space
DistContexts ==
    [attempt : {1}, max_attempts : {1, 2}, timeout : {None, 1}]

\* what a producer may put under a task id: an item of another type, a task
\* whose "context" TaskContext(**...) rejects, a task whose task_name is
\* not in task_registry, and a task that runs
DistItems(id) ==
    {[task_id |-> id, type |-> "other", context_ok |-> TRUE,
      task_name |-> "none", ctx |-> NoContext],
     [task_id |-> id, type |-> "task", context_ok |-> FALSE,
      task_name |-> "none", ctx |-> NoContext],
     [task_id |-> id, type |-> "task", context_ok |-> TRUE,
      task_name |-> "unknown", ctx |-> NoContext]}
    \cup {[task_id |-> id, type |-> "task", context_ok |-> TRUE,
           task_name |-> "known", ctx |-> c] : c \in DistContexts}

\* lambda t: t.get("type") == "task"
Matches(item) == item.type = "task"

\* index of the first item take() accepts, 0 when there is none
FirstMatch(space) ==
    IF \E i \in 1..Len(space) : Matches(space[i])
    THEN CHOOSE i \in 1..Len(space) :
             /\ Matches(space[i])
             /\ \A j \in 1..(i - 1) : ~Matches(space[j])
    ELSE 0

RemoveAt(space, i) ==
    [j \in 1..(Len(space) - 1) |-> IF j < i THEN space[j] ELSE space[j + 1]]

\* a producer puts an item into the task space
put_task(item) ==
    /\ dist_made < MaxItems
    /\ item.task_id = dist_made + 1
    /\ dist_made' = dist_made + 1
    /\ task_space' = Append(task_space, item)
    /\ UNCHANGED <<result_space, dist_pc, dist_cur, dist_raised>>
    /\ UNCHANGED runVars
    /\ UNCHANGED notDist

\* _process_tasks(space) entered: space.take is awaited
_process_tasks ==
    /\ dist_pc \in {"idle", "done", "escaped"}
    /\ dist_pc' = "take"
    /\ dist_cur' = NoItem
    /\ dist_raised' = "none"
    /\ UNCHANGED <<task_space, result_space, dist_made>>
    /\ UNCHANGED runVars
    /\ UNCHANGED notDist

\* space.take raised: line 24 is outside every try
TakeRaise ==
    /\ dist_pc = "take"
    /\ dist_pc' = "escaped"
    /\ dist_raised' = "take"
    /\ UNCHANGED <<task_space, result_space, dist_cur, dist_made>>
    /\ UNCHANGED runVars
    /\ UNCHANGED notDist

\* space.take returned None: the step is over
TakeNone ==
    /\ dist_pc = "take"
    /\ FirstMatch(task_space) = 0
    /\ dist_pc' = "done"
    /\ UNCHANGED <<task_space, result_space, dist_cur, dist_raised, dist_made>>
    /\ UNCHANGED runVars
    /\ UNCHANGED notDist

\* space.take returned an item: TaskContext(**task_data["context"]) is
\* built (outside every try), the task is looked up, and if there is one
\* task.run(context) is awaited; if there is none the step is over
TakeItem ==
    /\ dist_pc = "take"
    /\ FirstMatch(task_space) # 0
    /\ LET i == FirstMatch(task_space)
           item == task_space[i]
       IN  /\ task_space' = RemoveAt(task_space, i)
           /\ dist_cur' = item
           /\ IF ~item.context_ok
              THEN /\ dist_pc' = "escaped"
                   /\ dist_raised' = "context"
                   /\ UNCHANGED runVars
              ELSE IF item.task_name # "known"
              THEN /\ dist_pc' = "done"
                   /\ UNCHANGED dist_raised
                   /\ UNCHANGED runVars
              ELSE /\ dist_pc' = "run"
                   /\ UNCHANGED dist_raised
                   /\ context' = item.ctx
                   /\ entry' = item.ctx
                   /\ history' = <<>>
                   /\ run_pc' = "before"
    /\ UNCHANGED <<result_space, dist_made>>
    /\ UNCHANGED notDist

\* task.run returned: the success item is put into the result space
RunReturned ==
    /\ dist_pc = "run"
    /\ run_pc = "returned"
    /\ result_space' = Append(result_space,
           [task_id |-> dist_cur.task_id, status |-> "success",
            via |-> "run"])
    /\ dist_pc' = "done"
    /\ run_pc' = "idle"
    /\ UNCHANGED <<context, history, entry>>
    /\ UNCHANGED <<task_space, dist_cur, dist_raised, dist_made>>
    /\ UNCHANGED notDist

\* task.run raised (asyncio.TimeoutError is an Exception too): `except
\* Exception` puts the failure item into the result space
RunRaised ==
    /\ dist_pc = "run"
    /\ run_pc \in {"raised", "timed_out"}
    /\ result_space' = Append(result_space,
           [task_id |-> dist_cur.task_id, status |-> "failure",
            via |-> "run"])
    /\ dist_pc' = "done"
    /\ dist_raised' = "run"
    /\ run_pc' = "idle"
    /\ UNCHANGED <<context, history, entry>>
    /\ UNCHANGED <<task_space, dist_cur, dist_made>>
    /\ UNCHANGED notDist

NextDist ==
    \/ \E id \in 1..MaxItems : \E item \in DistItems(id) : put_task(item)
    \/ _process_tasks
    \/ TakeRaise
    \/ TakeNone
    \/ TakeItem
    \/ BeforeExecuteReturn
    \/ BeforeExecuteRaise
    \/ ExecuteReturn
    \/ ExecuteTimeout
    \/ ExecuteRaiseTimeout
    \/ ExecuteRaise
    \/ AfterExecuteReturn
    \/ AfterExecuteRaise
    \/ RecordSuccessRaise
    \/ RunReturned
    \/ RunRaised

InitDist == SchedulerAside /\ WorkerIdle

SpecDist == InitDist /\ [][NextDist]_vars

(* ===================== executor step errors (C16) ===================== *)
\* the last item of the result space is a failure result for the item taken
FailurePut ==
    /\ result_space # <<>>
    /\ result_space[Len(result_space)] =
           [task_id |-> dist_cur.task_id, status |-> "failure",
            via |-> "run"]

\* C16: no exception escapes a step of the executor's loop, and a step that
\* met an exception (in take, in building the context or in running the
\* task) has put a failure result for its task into the result space.
C16_StepCatchesAll ==
    /\ dist_pc # "escaped"
    /\ (dist_raised # "none" /\ dist_pc = "done") => FailurePut


(* ====================================================================== *)
(* An interval task whose handler always throws, from the scheduler's     *)
(* fire to the result space.  _queue_task (scheduler.py) makes a new Task *)
(* for every fire.  The sources hold two executors: TaskExecutor.execute, *)
(* whose caller (the processing unit's _process_task) is not in the       *)
(* sources and is taken from the design (take a task, process it, put the *)
(* result), and DistributedTaskExecutor._process_tasks.  Nothing in the   *)
(* sources puts a Task back after a retry result.                         *)
(* ====================================================================== *)
\* Task(id=..., type=task_name, payload=parameters): the other fields take
\* their defaults
FiredTask == [retry_count |-> 0, max_retries |-> DefaultMaxRetries]

\* the TaskContext of a fired task: attempt, max_attempts and timeout take
\* their defaults
FiredContext ==
    [attempt |-> 1, max_attempts |-> DefaultMaxAttempts, timeout |-> None]

\* a fire that hands its Task over twice
_queue_task_Twice ==
    /\ dist_made < MaxFires
    /\ dist_made' = dist_made + 1
    /\ task_space' = task_space \o
           [k \in 1..2 |->
               [task_id |-> dist_made + 1, type |-> "task",
                context_ok |-> TRUE, task_name |-> "known",
                ctx |-> FiredContext]]
    /\ UNCHANGED <<result_space, dist_pc, dist_cur, dist_raised>>
    /\ UNCHANGED <<runVars, execVars, schedVars, svcVars, lifeVars,
                   bootVars>>

\* _queue_task: the scheduler fires the interval task, a new Task is made
\* and handed to queue_task
_queue_task ==
    /\ dist_made < MaxFires
    /\ dist_made' = dist_made + 1
    /\ task_space' = Append(task_space,
           [task_id |-> dist_made + 1, type |-> "task", context_ok |-> TRUE,
            task_name |-> "known", ctx |-> FiredContext])
    /\ UNCHANGED <<result_space, dist_pc, dist_cur, dist_raised>>
    /\ UNCHANGED <<runVars, execVars, schedVars, svcVars, lifeVars,
                   bootVars>>

\* the processing unit takes the Task and calls execute(task):
\* _can_execute is awaited
_process_task ==
    /\ dist_pc \in {"idle", "done"}
    /\ FirstMatch(task_space) # 0
    /\ dist_cur' = task_space[FirstMatch(task_space)]
    /\ task_space' = RemoveAt(task_space, FirstMatch(task_space))
    /\ dist_pc' = "execute"
    /\ dist_raised' = "none"
    /\ exec_task' = FiredTask
    /\ exec_pc' = "can_execute"
    /\ exec_result' = NoResult
    /\ invoked' = {"_can_execute"}
    /\ exec_entry' = FiredTask.retry_count
    /\ precheck' = "none"
    /\ exec_raised' = "none"
    /\ exec_calls' = 1
    /\ UNCHANGED <<result_space, dist_made>>
    /\ UNCHANGED <<runVars, schedVars, svcVars, lifeVars, bootVars>>

\* execute(task) returned: the processing unit puts the TaskResult
PutTaskResult ==
    /\ dist_pc = "execute"
    /\ exec_pc = "returned"
    /\ result_space' = Append(result_space,
           [task_id |-> dist_cur.task_id, status |-> exec_result.status,
            via |-> "execute"])
    /\ dist_pc' = "done"
    /\ exec_pc' = "idle"
    /\ UNCHANGED <<exec_task, exec_result, invoked, exec_entry, precheck,
                   exec_raised, exec_calls>>
    /\ UNCHANGED <<task_space, dist_cur, dist_raised, dist_made>>
    /\ UNCHANGED <<runVars, schedVars, svcVars, lifeVars, bootVars>>

\* the handler always throws: _execute_task raises, execute raises
NextFires ==
    \/ _queue_task
    \/ _process_task
    \/ CanExecuteTrue
    \/ ExecuteTaskRaise
    \/ PutTaskResult
    \/ _process_tasks
    \/ TakeItem
    \/ TakeNone
    \/ BeforeExecuteReturn
    \/ ExecuteRaise
    \/ RunRaised

InitFires == SchedulerAside /\ WorkerIdle

SpecFires == InitFires /\ [][NextFires]_vars

(* ============== three fires of a failing task (C15) =================== *)
\* three fires have been made and every one of them has been processed
ThreeFiresDone ==
    /\ dist_made = 3
    /\ task_space = <<>>
    /\ dist_pc \in {"idle", "done"}

ResultIds == {result_space[i].task_id : i \in 1..Len(result_space)}

InitOrder_SchedulerFirst ==
    <<"sba", "queue_manager", "scheduler", "executor_manager", "monitor">>

\* initialize(), lines 48-52: the _initialize_* calls in source order
InitOrder ==
    <<"sba", "queue_manager", "executor_manager", "scheduler", "monitor">>

\* _cleanup_partial_initialization, lines 141-146: the `components` list
CleanupOrder == <<"monitor", "scheduler", "executor_manager", "queue_manager">>

IndexOf(seq, c) == CHOOSE i \in 1..Len(seq) : seq[i] = c

\* `for component in components: if component:` from position `from` on:
\* the position of the next reference that is set, 0 when there is none
NextToShutDown(from, r) ==
    LET left == {i \in from..Len(CleanupOrder) : r[CleanupOrder[i]]}
    IN  IF left = {} THEN 0
        ELSE CHOOSE i \in left : \A j \in left : i <= j

\* the cleanup loop runs on to its next awaited shutdown(); after the loop
\* initialize() re-raises
Cleanup(from, r) ==
    IF NextToShutDown(from, r) = 0
    THEN /\ svc_pc' = "idle"
         /\ svc_cur' = "none"
         /\ svc_outcome' = "raised"
    ELSE /\ svc_pc' = "cleanup"
         /\ svc_cur' = CleanupOrder[NextToShutDown(from, r)]
         /\ svc_outcome' = "none"

\* _initialize_<c>() up to its await: the component is constructed and the
\* reference assigned, or the constructor raises and cleanup begins
Enter(c, ok, cm, lg) ==
    /\ svc_log' = Append(lg, [ev |-> "begin", c |-> c])
    /\ IF ok
       THEN /\ refs' = [refs EXCEPT ![c] = TRUE]
            /\ comp' = [cm EXCEPT ![c] = "constructed"]
            /\ svc_pc' = "await"
            /\ svc_cur' = c
            /\ svc_outcome' = "none"
       ELSE /\ refs' = refs
            /\ comp' = cm
            /\ Cleanup(1, refs)

\* initialize() that does not look at _initialized
initialize_Again ==
    /\ svc_pc = "idle"
    /\ svc_calls < MaxInitCalls
    /\ svc_calls' = svc_calls + 1
    /\ \E ok \in BOOLEAN : Enter(InitOrder[1], ok, comp, <<>>)
    /\ UNCHANGED <<_initialized, health>>
    /\ UNCHANGED notSvc

\* initialize(): the early return of lines 40-42, or the first step
initialize ==
    /\ svc_pc = "idle"
    /\ svc_calls < MaxInitCalls
    /\ svc_calls' = svc_calls + 1
    /\ IF _initialized
       THEN /\ svc_outcome' = "warned"
            /\ UNCHANGED <<refs, comp, svc_pc, svc_cur, svc_log>>
       ELSE \E ok \in BOOLEAN : Enter(InitOrder[1], ok, comp, <<>>)
    /\ UNCHANGED <<_initialized, health>>
    /\ UNCHANGED notSvc

\* the awaited initialize() of a component returned: the next step is
\* entered, or after the last one _register_tasks is awaited
StepReturn ==
    /\ svc_pc = "await"
    /\ LET cm == [comp EXCEPT ![svc_cur] = "initialized"]
           lg == Append(svc_log, [ev |-> "done", c |-> svc_cur])
           i == IndexOf(InitOrder, svc_cur)
       IN  IF i < Len(InitOrder)
           THEN \E ok \in BOOLEAN : Enter(InitOrder[i + 1], ok, cm, lg)
           ELSE /\ comp' = cm
                /\ svc_log' = Append(lg, [ev |-> "register", c |-> "none"])
                /\ svc_pc' = "register"
                /\ svc_cur' = "none"
                /\ svc_outcome' = "none"
                /\ UNCHANGED refs
    /\ UNCHANGED <<_initialized, svc_calls, health>>
    /\ UNCHANGED notSvc

\* the awaited initialize() of a component raised: except Exception
StepRaise ==
    /\ svc_pc = "await"
    /\ svc_log' = Append(svc_log, [ev |-> "failed", c |-> svc_cur])
    /\ Cleanup(1, refs)
    /\ UNCHANGED <<_initialized, refs, comp, svc_calls, health>>
    /\ UNCHANGED notSvc

\* _register_tasks returned: self._initialized = True
RegisterReturn ==
    /\ svc_pc = "register"
    /\ _initialized' = TRUE
    /\ svc_pc' = "idle"
    /\ svc_outcome' = "returned"
    /\ UNCHANGED <<refs, comp, svc_cur, svc_log, svc_calls, health>>
    /\ UNCHANGED notSvc

\* _register_tasks raised: except Exception
RegisterRaise ==
    /\ svc_pc = "register"
    /\ svc_log' = Append(svc_log, [ev |-> "failed", c |-> "none"])
    /\ Cleanup(1, refs)
    /\ UNCHANGED <<_initialized, refs, comp, svc_calls, health>>
    /\ UNCHANGED notSvc

\* the awaited shutdown() returned: the loop goes on
ShutdownReturn ==
    /\ svc_pc = "cleanup"
    /\ comp' = [comp EXCEPT ![svc_cur] = "shutdown"]
    /\ svc_log' = Append(svc_log, [ev |-> "shutdown", c |-> svc_cur])
    /\ Cleanup(IndexOf(CleanupOrder, svc_cur) + 1, refs)
    /\ UNCHANGED <<_initialized, refs, svc_calls, health>>
    /\ UNCHANGED notSvc

\* the awaited shutdown() raised: logged, and the loop goes on
ShutdownRaise ==
    /\ svc_pc = "cleanup"
    /\ svc_log' = Append(svc_log, [ev |-> "shutdown_failed", c |-> svc_cur])
    /\ Cleanup(IndexOf(CleanupOrder, svc_cur) + 1, refs)
    /\ UNCHANGED <<_initialized, refs, comp, svc_calls, health>>
    /\ UNCHANGED notSvc

\* what is_healthy() of a component answers
is_healthy(state) == state = "initialized"

\* health_check() with every entry of health_status starting as True
health_check_DefaultTrue ==
    /\ health' = [c \in Components |->
                     IF refs[c] => is_healthy(comp[c])
                     THEN "true" ELSE "false"]
    /\ UNCHANGED <<_initialized, refs, comp, svc_pc, svc_cur, svc_log,
                   svc_outcome, svc_calls>>
    /\ UNCHANGED notSvc

\* health_check(): false for a reference that is None, is_healthy() of the
\* component otherwise
health_check ==
    /\ health' = [c \in Components |->
                     IF refs[c] /\ is_healthy(comp[c])
                     THEN "true" ELSE "false"]
    /\ UNCHANGED <<_initialized, refs, comp, svc_pc, svc_cur, svc_log,
                   svc_outcome, svc_calls>>
    /\ UNCHANGED notSvc

NextSvc ==
    \/ initialize
    \/ StepReturn
    \/ StepRaise
    \/ RegisterReturn
    \/ RegisterRaise
    \/ ShutdownReturn
    \/ ShutdownRaise
    \/ health_check

InitSvc == SchedulerAside /\ WorkerIdle

SpecSvc == InitSvc /\ [][NextSvc]_vars


(* ===================== startup order (C17) ============================ *)
\* the order the design fixes: spaces, queue manager, executor pool,
\* scheduler, monitor
StartupOrder ==
    <<"sba", "queue_manager", "executor_manager", "scheduler", "monitor">>

\* the initialization of component c completed before entry i of the log
DoneBefore(i, c) ==
    \E j \in 1..(i - 1) : svc_log[j] = [ev |-> "done", c |-> c]

\* C17: within one initialize(), the initialization of a component begins
\* only after the initialization of every component earlier in the order
\* spaces, queue manager, executor pool, scheduler, monitor has completed,
\* and task registration begins only after all five have completed.
C17_FixedStartupOrder ==
    \A i \in 1..Len(svc_log) :
        /\ svc_log[i].ev = "begin" =>
               \A k \in 1..(IndexOf(StartupOrder, svc_log[i].c) - 1) :
                   DoneBefore(i, StartupOrder[k])
        /\ svc_log[i].ev = "register" =>
               \A k \in 1..Len(StartupOrder) : DoneBefore(i, StartupOrder[k])

\* an initialize() that went through all five steps and the registration
C17_Witness ==
    /\ _initialized
    /\ svc_outcome = "returned"
    /\ Len(svc_log) = 11
    /\ svc_log[11].ev = "register"

(* ===================== idempotent initialize (C18) ==================== *)
C18_SecondInitializeStep ==
    (_initialized /\ svc_calls' # svc_calls) =>
        /\ svc_outcome' = "warned"
        /\ UNCHANGED <<_initialized, refs, comp, svc_pc, svc_cur, svc_log>>

\* C18: an initialize() call on a service whose initialize() has completed
\* returns after its warning and changes nothing: no component is created,
\* initialized or shut down, and the references and _initialized stay.
C18_InitializeIdempotent == [][C18_SecondInitializeStep]_vars

\* a second initialize() returned on an initialized service
C18_Witness ==
    /\ _initialized
    /\ svc_outcome = "warned"
    /\ svc_calls = 2

(* ===================== rollback (C19) ================================= *)
\* the components whose initialization completed in the current initialize()
DoneSet ==
    {c \in Components :
        \E i \in 1..Len(svc_log) : svc_log[i] = [ev |-> "done", c |-> c]}

IsShutdown(e) == e.ev \in {"shutdown", "shutdown_failed"}

\* the components whose shutdown() the cleanup called, in call order
ShutdownCalls ==
    LET sh == SelectSeq(svc_log, IsShutdown)
    IN  [i \in 1..Len(sh) |-> sh[i].c]

WasDone(c) == c \in DoneSet

\* the components whose initialization completed, last initialized first
DoneReversed ==
    SelectSeq(<<"monitor", "scheduler", "executor_manager", "queue_manager",
                "sba">>, WasDone)

\* C19: when initialize() has raised, shutdown() has been called on every
\* component whose initialization had completed, in the reverse of the
\* initialization order, on no other component, whether or not an earlier
\* shutdown() raised, and _initialized is false.
C19_RollbackInReverse ==
    svc_outcome = "raised" =>
        /\ ShutdownCalls = DoneReversed
        /\ ~_initialized

(* ===================== startup atomicity (C20) ======================== *)
\* initialize() has raised and the step that failed was the executor pool's
ExecutorInitFailed ==
    /\ svc_outcome = "raised"
    /\ \E i \in 1..Len(svc_log) :
           svc_log[i] = [ev |-> "begin", c |-> "executor_manager"]
    /\ "executor_manager" \notin DoneSet

C20_AfterFailureStep ==
    ExecutorInitFailed =>
        /\ comp["sba"] = "shutdown"
        /\ health' # health => \A c \in Components : health'[c] = "false"

\* C20: once initialize() has raised because the executor pool's
\* initialization failed, the spaces have been torn down and a
\* health_check() reports false for every component.
C20_StartupAtomic == [][C20_AfterFailureStep]_vars

(* ====================================================================== *)
(* WorkerService.start() and WorkerService.stop() (service.py, lines      *)
(* 155-184).  start() and stop() of the queue manager, the executor pool  *)
(* and the monitor are awaited calls into other packages: each returns or *)
(* raises.  start() and stop() of the scheduler are those of              *)
(* TaskScheduler above: start() returns when the polling loop has ended,  *)
(* stop() clears the flag without suspending.                             *)
(* ====================================================================== *)
\* start(), lines 163-166, with the monitor started ahead of the scheduler
StartOrder_MonitorEarly ==
    <<"queue_manager", "executor_manager", "monitor", "scheduler">>

\* start(), lines 163-166: the start() calls in source order
StartOrder == <<"queue_manager", "executor_manager", "scheduler", "monitor">>

\* stop(), lines 175-182: the guarded stop() calls in source order
StopOrder == <<"monitor", "scheduler", "executor_manager", "queue_manager">>

\* the scheduler's own variables that start() and stop() of the service
\* leave alone, the flag aside
notFlag == <<clock, check_interval, scheduled_tasks, objs, pending_queue,
             pc, now, snap, cur, wake_at, used, once_ids, fired, fired_slot,
             tick_due, tick_tried, last_call, observe>>

\* start(): raises when not initialized, else awaits _queue_manager.start()
svc_start ==
    /\ start_pc \in {"idle", "raised"}
    /\ pc = "idle"
    /\ life_calls < MaxLifeCalls
    /\ life_calls' = life_calls + 1
    /\ IF ~_initialized
       THEN /\ start_pc' = "raised"
            /\ start_log' = <<>>
       ELSE /\ start_pc' = StartOrder[1]
            /\ start_log' = <<StartOrder[1]>>
    /\ UNCHANGED <<stop_pc, stop_log>>
    /\ UNCHANGED <<schedVars, runVars, execVars, distVars, svcVars,
                   bootVars>>

\* the awaited start() of a component other than the scheduler returned,
\* and the component that follows is not the scheduler
StartReturn ==
    /\ start_pc \in {"queue_manager", "executor_manager", "monitor"}
    /\ LET i == IndexOf(StartOrder, start_pc) IN
       /\ i < Len(StartOrder) => StartOrder[i + 1] # "scheduler"
       /\ IF i < Len(StartOrder)
          THEN /\ start_pc' = StartOrder[i + 1]
               /\ start_log' = Append(start_log, StartOrder[i + 1])
          ELSE /\ start_pc' = "returned"
               /\ start_log' = start_log
    /\ UNCHANGED <<stop_pc, stop_log, life_calls>>
    /\ UNCHANGED <<schedVars, runVars, execVars, distVars, svcVars,
                   bootVars>>

\* the awaited start() of the component ahead of the scheduler returned:
\* _scheduler.start() runs up to the first suspension of its loop
StartScheduler ==
    /\ start_pc \in {"queue_manager", "executor_manager", "monitor"}
    /\ IndexOf(StartOrder, start_pc) < Len(StartOrder)
    /\ StartOrder[IndexOf(StartOrder, start_pc) + 1] = "scheduler"
    /\ start_pc' = "scheduler"
    /\ start_log' = Append(start_log, "scheduler")
    /\ EnterLoop
    /\ UNCHANGED <<stop_pc, stop_log, life_calls>>
    /\ UNCHANGED <<runVars, execVars, distVars, svcVars, bootVars>>

\* SchedulerReturn with _scheduler.start() made a background task: the
\* loop is not waited for
SchedulerReturn_NotAwaited ==
    /\ start_pc = "scheduler"
    /\ LET i == IndexOf(StartOrder, "scheduler") IN
       IF i < Len(StartOrder)
       THEN /\ start_pc' = StartOrder[i + 1]
            /\ start_log' = Append(start_log, StartOrder[i + 1])
       ELSE /\ start_pc' = "returned"
            /\ start_log' = start_log
    /\ UNCHANGED <<stop_pc, stop_log, life_calls>>
    /\ UNCHANGED <<schedVars, runVars, execVars, distVars, svcVars,
                   bootVars>>

\* _scheduler.start() returned, its loop having ended: the component that
\* follows is started, or start() returns
SchedulerReturn ==
    /\ start_pc = "scheduler"
    /\ pc = "stopped"
    /\ LET i == IndexOf(StartOrder, "scheduler") IN
       IF i < Len(StartOrder)
       THEN /\ start_pc' = StartOrder[i + 1]
            /\ start_log' = Append(start_log, StartOrder[i + 1])
       ELSE /\ start_pc' = "returned"
            /\ start_log' = start_log
    /\ UNCHANGED <<stop_pc, stop_log, life_calls>>
    /\ UNCHANGED <<schedVars, runVars, execVars, distVars, svcVars,
                   bootVars>>

\* the awaited start() of a component raised: start() raises
StartRaise ==
    /\ start_pc \in {"queue_manager", "executor_manager", "monitor"}
    /\ start_pc' = "raised"
    /\ UNCHANGED <<stop_pc, start_log, stop_log, life_calls>>
    /\ UNCHANGED <<schedVars, runVars, execVars, distVars, svcVars,
                   bootVars>>

\* stop() from position `from` of StopOrder up to its next suspension:
\* references that are None are passed over, _scheduler.stop() clears the
\* flag on the way, and the stop() of any other component is awaited
StopFlow(from, lg) ==
    LET ext == {i \in from..Len(StopOrder) :
                   refs[StopOrder[i]] /\ StopOrder[i] # "scheduler"}
        nxt == IF ext = {} THEN 0
               ELSE CHOOSE i \in ext : \A j \in ext : i <= j
        end == IF nxt = 0 THEN Len(StopOrder) + 1 ELSE nxt
        s == IndexOf(StopOrder, "scheduler")
        passed == refs["scheduler"] /\ from <= s /\ s < end
    IN  /\ running' = IF passed THEN FALSE ELSE running
        /\ stop_log' = lg \o (IF passed THEN <<"scheduler">> ELSE <<>>)
                          \o (IF nxt # 0 THEN <<StopOrder[nxt]>> ELSE <<>>)
        /\ stop_pc' = IF nxt = 0 THEN "returned" ELSE StopOrder[nxt]

\* stop()
svc_stop ==
    /\ stop_pc \in {"idle", "returned", "raised"}
    /\ life_calls < MaxLifeCalls
    /\ life_calls' = life_calls + 1
    /\ StopFlow(1, <<>>)
    /\ UNCHANGED <<start_pc, start_log>>
    /\ UNCHANGED <<notFlag, runVars, execVars, distVars, svcVars, bootVars>>

\* the awaited stop() of a component returned
StopReturn ==
    /\ stop_pc \in {"monitor", "executor_manager", "queue_manager"}
    /\ StopFlow(IndexOf(StopOrder, stop_pc) + 1, stop_log)
    /\ UNCHANGED <<start_pc, start_log, life_calls>>
    /\ UNCHANGED <<notFlag, runVars, execVars, distVars, svcVars, bootVars>>

\* the awaited stop() of a component raised: stop() raises
StopRaise ==
    /\ stop_pc \in {"monitor", "executor_manager", "queue_manager"}
    /\ stop_pc' = "raised"
    /\ UNCHANGED <<start_pc, start_log, stop_log, life_calls>>
    /\ UNCHANGED <<schedVars, runVars, execVars, distVars, svcVars,
                   bootVars>>

\* the service with the loop of its scheduler; no task is registered
NextLife ==
    \/ svc_calls = 0 /\ initialize
    \/ StepReturn
    \/ StepRaise
    \/ RegisterReturn
    \/ RegisterRaise
    \/ ShutdownReturn
    \/ ShutdownRaise
    \/ health_check
    \/ svc_start
    \/ StartReturn
    \/ StartScheduler
    \/ SchedulerReturn
    \/ StartRaise
    \/ svc_stop
    \/ StopReturn
    \/ StopRaise
    \/ WakeTick
    \/ WakeExit
    \/ clock < MaxTime - 1 /\ AdvanceClock

InitLife == SchedulerAside /\ WorkerIdle

SpecLife == InitLife /\ [][NextLife]_vars


(* ===================== start and stop order (C21) ===================== *)
\* the order start() is to keep, and its reverse
StartSequence ==
    <<"queue_manager", "executor_manager", "scheduler", "monitor">>

StopSequence ==
    <<"monitor", "scheduler", "executor_manager", "queue_manager">>

IsPrefix(a, b) == Len(a) <= Len(b) /\ a = SubSeq(b, 1, Len(a))

\* the elements of a are elements of b, in the order b has them
InOrder(a, b) ==
    /\ \A i \in 1..Len(a) : \E k \in 1..Len(b) : b[k] = a[i]
    /\ \A i, j \in 1..Len(a) :
           i < j => IndexOf(b, a[i]) < IndexOf(b, a[j])

\* C21: start() on an initialized service starts queue manager, executor,
\* scheduler, monitor in this order, and all four once it has returned;
\* stop() stops the components in the reverse order, monitor first, and
\* all four once it has returned on a service whose monitor was set;
\* start() on a service that is not initialized raises and starts nothing.
C21_StartStopOrder ==
    /\ IsPrefix(start_log, StartSequence)
    /\ start_pc = "returned" => start_log = StartSequence
    /\ start_pc \in Components => start_log[Len(start_log)] = start_pc
    /\ InOrder(stop_log, StopSequence)
    /\ (stop_pc = "returned" /\ stop_log # <<>> /\ stop_log[1] = "monitor")
           => stop_log = StopSequence
    /\ ~_initialized => start_pc \in {"idle", "raised"} /\ start_log = <<>>

\* a start() and a stop() that both ran to their end on an initialized
\* service
C21_Witness ==
    /\ _initialized
    /\ start_pc = "returned"
    /\ start_log = StartSequence
    /\ stop_pc = "returned"
    /\ stop_log = StopSequence

(* ===================== start() and the loop (C24) ===================== *)
\* the polling loop is between its start and its end
LoopRunning == pc \in {"sleep", "queue_resident", "queue_once"}

\* C24: while the polling loop of the scheduler runs, start() of the
\* service is suspended in _scheduler.start(): monitor.start() has not
\* been called and start() has not returned; they come only after the
\* flag was cleared by stop() and the loop saw it and ended.
C24_StartBlocksOnLoop ==
    /\ LoopRunning =>
           /\ start_pc = "scheduler"
           /\ \A i \in 1..Len(start_log) : start_log[i] # "monitor"
    /\ (start_pc \in {"monitor", "returned"}
           \/ \E i \in 1..Len(start_log) : start_log[i] = "monitor")
          => pc = "stopped" /\ ~running

\* monitor.start() is awaited, the loop having ended after a stop()
C24_Witness ==
    /\ start_pc = "monitor"
    /\ pc = "stopped"
    /\ \E i \in 1..Len(stop_log) : stop_log[i] = "scheduler"

(* ===================== removal during a tick (C25) ==================== *)
\* resident ids that remove_task has taken out of the map
Removed == (used \ once_ids) \ Range(scheduled_tasks)

\* the step hands task i to queue_task
BeginsEnqueue(i) ==
    /\ pc' = "queue_resident"
    /\ cur'.task_id = i
    /\ pc # "queue_resident" \/ cur.task_id # i

\* the queue_task calls of the current tick, the one in flight included
TickCalls ==
    [k \in 1..Len(tick_tried) |-> tick_tried[k].task_id]
    \o (IF pc \in {"queue_resident", "queue_once"}
        THEN <<cur.task_id>> ELSE <<>>)

\* C25: a removed task never comes back into the resident map; it is
\* handed to queue_task only by a tick that was already under way when it
\* was removed (it was due when that tick read the map), as the tick goes
\* on from an earlier queue_task call; and one tick hands an id to
\* queue_task at most once.
C25_RemovedStep ==
    /\ \A i \in Removed :
           /\ i \notin Range(scheduled_tasks')
           /\ BeginsEnqueue(i) =>
                  /\ pc = "queue_resident"
                  /\ i \in tick_due
                  /\ tick_due' = tick_due
    /\ \A j, k \in 1..Len(TickCalls) : j # k => TickCalls[j] # TickCalls[k]

C25_RemovedDuringTick == [][C25_RemovedStep]_vars

\* the tick has queued one task and now hands over another one, which was
\* removed from the map in the meantime
C25_Witness ==
    /\ pc = "queue_resident"
    /\ cur.task_id \in Removed
    /\ Len(tick_tried) = 1
    /\ tick_tried[1].task_id # cur.task_id

(* ===================== failed resident enqueue (C26) ================== *)
\* the step is the return or the raise of a queue_task call for task i
EndsEnqueue(i, ok) ==
    /\ pc = "queue_resident"
    /\ cur.task_id = i
    /\ Len(tick_tried') = Len(tick_tried) + 1
    /\ tick_tried'[Len(tick_tried')] = [task_id |-> i, ok |-> ok]

\* the step ends a tick: the loop goes to sleep
EndsTick == pc' = "sleep" /\ (pc # "sleep" \/ now' # now \/ wake_at' # wake_at)

\* the ids the tick that ends with this step has handed to queue_task
TriedIds == {tick_tried'[k].task_id : k \in 1..Len(tick_tried')}

\* C26: a queue_task call that raises for a resident task leaves the
\* next_run of the task as it was; a resident task that is due stays due
\* until a queue_task call for it returns or it is removed; and a tick
\* hands every resident task that was due when it began to queue_task
\* before it ends.  So a task whose enqueue raised is tried again by
\* every following tick.
C26_FailedStep ==
    /\ \A i \in DOMAIN objs :
           EndsEnqueue(i, FALSE) =>
               /\ i \in DOMAIN objs' => objs'[i].next_run = objs[i].next_run
               /\ i \in Range(scheduled_tasks) =>
                      /\ i \in DOMAIN objs'
                      /\ IsDue(objs'[i], clock')
    /\ \A i \in Range(scheduled_tasks) \cap Range(scheduled_tasks') :
           (pc # "idle" /\ IsDue(objs[i], clock) /\ ~EndsEnqueue(i, TRUE))
               => IsDue(objs'[i], clock')
    /\ EndsTick =>
           \A i \in tick_due' \ once_ids : i \in TriedIds

C26_FailedEnqueueRetried == [][C26_FailedStep]_vars

\* a tick whose queue_task call for a task raised: the task is in the map
\* and due, with the next_run that was due when the tick began
C26_Witness ==
    \E k \in 1..Len(tick_tried) :
        /\ ~tick_tried[k].ok
        /\ tick_tried[k].task_id \in Range(scheduled_tasks)
        /\ IsDue(objs[tick_tried[k].task_id], now)
        /\ pc = "sleep"

(* ===================== failed one-time enqueue (C27) ================== *)
\* the queue_task call for one-time task i is in flight
InFlight(i) == pc = "queue_once" /\ cur.task_id = i

\* C27: a one-time entry is off the heap while its queue_task call is in
\* flight, and once that call has raised the entry is not on the heap, no
\* further call is made for it, and none has returned: the task fires
\* zero times.
C27_FailedOnceIsLost ==
    \A i \in once_ids :
        /\ InFlight(i) => i \notin HeapIds(pending_queue)
        /\ fired[i].err >= 1 =>
               /\ i \notin HeapIds(pending_queue)
               /\ ~InFlight(i)
               /\ fired[i].err = 1
               /\ fired[i].ok = 0

\* a tick that came after the failed call found nothing to do
C27_Witness ==
    \E i \in once_ids :
        /\ fired[i].err = 1
        /\ fired[i].ok = 0
        /\ pc = "sleep"
        /\ tick_tried = <<>>
        /\ now > 0

(* ===================== what run() retries (C28) ======================= *)
\* C28 as stated: once an invocation of execute has returned, execute is
\* not invoked again in the same run(), whatever after_execute or the
\* recording of the success metric do.
C28_NoRetryAfterSuccess ==
    \A i \in 1..Len(history) :
        history[i] = "returned" =>
            /\ run_pc \notin {"before", "execute"}
            /\ \A j \in (i + 1)..Len(history) :
                   history[j] \notin ExecuteOutcomes

\* C28, amended: run() retries after every failure other than a timeout
\* that is raised inside its try, by before_execute, by execute, by
\* after_execute or by the recording of the success metric.  A new attempt
\* follows a failure and nothing else; an execute that returned is followed
\* by the end of run() or by a failure of what comes after it; and run()
\* re-raises a failure only when no attempt is left, so that after a
\* failing after_execute with attempts left execute is invoked again.
C28_RetryAfterAnyFailure ==
    /\ (run_pc \in {"before", "execute"} /\ history # <<>>) =>
           history[Len(history)] \in Failures
    /\ \A i \in 1..(Len(history) - 1) :
           /\ history[i] = "returned" =>
                  history[i + 1] \in {"after_raised", "metrics_raised"}
           /\ history[i] \in Failures \cup {"returned"}
    /\ (history # <<>> /\ history[Len(history)] \in Failures) =>
           /\ run_pc \in {"before", "execute", "after", "raised"}
           /\ run_pc = "raised" => ~ShouldRetry(context)
           /\ run_pc # "raised" => context.attempt <= context.max_attempts
    /\ run_pc = "raised" => history[Len(history)] \in Failures

\* execute is in flight for the second time, its first invocation having
\* returned and after_execute having raised
C28_Witness ==
    /\ run_pc = "execute"
    /\ history = <<"returned", "after_raised">>

(* ===================== one result per taken task (C29) ================ *)
ResultsFor(id) == {k \in 1..Len(result_space) : result_space[k].task_id = id}

\* C29: when a step of _process_tasks that took an item has returned, the
\* result space holds exactly one item with the task_id of the item taken,
\* also when no task is registered under its task_name; and it never
\* holds two for one task_id.
C29_OneResultPerTaken ==
    /\ (dist_pc = "done" /\ dist_cur # NoItem) =>
           Cardinality(ResultsFor(dist_cur.task_id)) = 1
    /\ \A id \in 1..MaxItems : Cardinality(ResultsFor(id)) <= 1

(* ===================== stop() ahead of start() (C30) ================== *)
\* stop() of the service has called _scheduler.stop()
StopCalled == \E i \in 1..Len(stop_log) : stop_log[i] = "scheduler"

\* the step runs a tick of the polling loop: the loop reads the clock and
\* goes to sleep until a later time
TickStep == wake_at' # wake_at

\* C30: once stop() of the scheduler has been called no tick begins,
\* whether the call came after start() had set the flag or before.
C30_StopStep == StopCalled => ~TickStep

C30_StopWins == [][C30_StopStep]_vars

(* ===================== health_check (C22) ============================= *)
\* C22: whenever health_check() is called (before initialize, during it,
\* after a failed or a successful one, after stop), it returns one boolean
\* for each of the five components, false for every component that is not
\* initialized, and it does not raise.
C22_HealthCheckStep ==
    health' # health =>
        /\ DOMAIN health' = Components
        /\ \A c \in Components :
               /\ health'[c] \in {"true", "false"}
               /\ comp[c] # "initialized" => health'[c] = "false"

NoSchedule == "<missing>"

JobSchedules == CronInputs \cup {"every 1s", NoSchedule}

DefaultPriority == 5                     \* job_config.get("priority", 5)

\* the configurations: up to MaxJobs jobs, no more cron jobs than ids
JobConfigs ==
    {js \in UNION {[1..n -> JobSchedules] : n \in 0..MaxJobs} :
        Cardinality({i \in DOMAIN js : _is_cron_expression(js[i])})
            <= Cardinality(Ids)}

\* the orders in which uuid4 may hand out the ids
IdOrders ==
    {f \in [1..Cardinality(Ids) -> Ids] :
        \A i, j \in DOMAIN f : i # j => f[i] # f[j]}

\* LoadJobs with `break` in the else branch of _load_job_from_config
RECURSIVE LoadJobs_StopAtInvalid(_, _, _, _)
LoadJobs_StopAtInvalid(js, ids, keys, o) ==
    IF js = <<>> THEN [keys |-> keys, objs |-> o, raised |-> FALSE]
    ELSE IF Head(js) = NoSchedule
    THEN [keys |-> keys, objs |-> o, raised |-> TRUE]
    ELSE IF _is_cron_expression(Head(js))
    THEN LoadJobs_StopAtInvalid(Tail(js), Tail(ids), Append(keys, Head(ids)),
             _update_next_cron_run(
                 (Head(ids) :> CronTask(Head(js), DefaultPriority)) @@ o,
                 Head(ids)))
    ELSE [keys |-> keys, objs |-> o, raised |-> FALSE]

\* the loop of initialize() over _load_job_from_config: a cron expression
\* goes to schedule_cron, anything else is logged as unsupported, and a
\* job without a schedule entry ends the loop with the KeyError
RECURSIVE LoadJobs(_, _, _, _)
LoadJobs(js, ids, keys, o) ==
    IF js = <<>> THEN [keys |-> keys, objs |-> o, raised |-> FALSE]
    ELSE IF Head(js) = NoSchedule
    THEN [keys |-> keys, objs |-> o, raised |-> TRUE]
    ELSE IF _is_cron_expression(Head(js))
    THEN LoadJobs(Tail(js), Tail(ids), Append(keys, Head(ids)),
             _update_next_cron_run(
                 (Head(ids) :> CronTask(Head(js), DefaultPriority)) @@ o,
                 Head(ids)))
    ELSE LoadJobs(Tail(js), ids, keys, o)

\* initialize() on the scheduler as constructed
scheduler_initialize ==
    /\ pc = "idle"
    /\ used = {}
    /\ boot_outcome = "none"
    /\ \E js \in JobConfigs, ids \in IdOrders :
          LET r == LoadJobs(js, ids, scheduled_tasks, objs) IN
          /\ jobs' = js
          /\ scheduled_tasks' = r.keys
          /\ objs' = r.objs
          /\ used' = Range(r.keys)
          /\ fired_slot' = [i \in Range(r.keys) |-> None]
          /\ boot_outcome' = IF r.raised THEN "raised" ELSE "returned"
    /\ last_call' = NoCall
    /\ UNCHANGED <<clock, check_interval, observe, pending_queue, running,
                   once_ids, fired>>
    /\ UNCHANGED loopVars
    /\ UNCHANGED <<runVars, execVars, distVars, svcVars, lifeVars>>

\* the scheduler from its bootstrap on
NextBoot ==
    \/ scheduler_initialize
    \/ boot_outcome = "returned" /\ start
    \/ stop
    \/ WakeTick
    \/ WakeExit
    \/ QueueResidentReturn
    \/ QueueResidentRaise
    \/ AdvanceClock

InitBoot == SchedulerAside /\ WorkerIdle

SpecBoot == InitBoot /\ [][NextBoot]_vars

(* ===================== malformed schedules (C23) ====================== *)
\* a schedule of one of the two forms of a schedule descriptor, a cron
\* string or "every Ns"
ValidSchedule(s) == _is_cron_expression(s) \/ s = "every 1s"

\* the cron expressions of the resident map, in insertion order
Registered ==
    [i \in 1..Len(scheduled_tasks) |->
        objs[scheduled_tasks[i]].cron_expression]

====
